---- MODULE Spec2Model ----
(***************************************************************************)
(* A model of the OpenAI-compatible gateway that drives the backend CLI.   *)
(*                                                                         *)
(* The module holds state machines over disjoint groups of variables:      *)
(*   SpecKey     the Key & Quota Service (services/api_key_service.py)     *)
(*   SpecGate    the key-authentication gate (api/middleware/api_key_auth) *)
(*   SpecStream  the Streaming Translator (services/stream_service.py)     *)
(*   Spec        the chat route, Session Manager, Durable Session Store    *)
(*               and Backend Process Manager, every request with a user     *)
(*               field; SpecChat adds requests without one                  *)
(*   SpecSend    ClaudeProcess.send_message and its consumer               *)
(*   SpecPort    the PortManager and the launcher (cli/server.py)          *)
(*   SpecDecode  the byte-wise reader of send_message                      *)
(*   SpecTodo    the TodoWrite display                                     *)
(*   SpecManager the SessionManager methods, called concurrently           *)
(*   SpecSweep   the cleanup task of the SessionManager beside lookups;    *)
(*               SpecSweepFair adds the fairness of the loop               *)
(*   SpecFail    the SessionManager methods beside failures of the store   *)
(*   SpecProc    the methods of ClaudeService, called concurrently         *)
(* Each specification leaves the variables of the others at their initial  *)
(* values.                                                                 *)
(***************************************************************************)
EXTENDS Integers, Sequences, FiniteSets, TLC

VARIABLES
    \* ---- Key & Quota Service
    api_key_enabled,   \* config.api_key_enabled
    clock,             \* datetime.now(timezone.utc), in ticks
    usage_storage,     \* APIKeyService._usage_storage: key -> APIKeyUsage or NoUsage
    key_result,        \* what the last operation of the service returned
    key_hist,          \* history: outcomes of the validations judged against the
                       \* current period of each key's usage record
    \* ---- Key-authentication gate
    gate_request,      \* the request a client sends through the middleware
    gate_response,     \* what the middleware answered for it
    \* ---- Streaming Translator
    claude_output,     \* the backend line stream: [lines, raises_at]
    st_pc,             \* where create_claude_stream stands
    st_next,           \* index of the next item asked of claude_output
    parsed_contents,   \* create_claude_stream's list of classified lines
    sse,               \* the SSE frames sent to the client so far
    \* ---- Chat route, Session Manager, Durable Session Store, Process Manager
    up,                \* the application is running
    boots,             \* how often it has been started
    now,               \* datetime.now() as the Session Manager reads it, in ticks
    convs,             \* how many conversation ids the backend has issued
    started,           \* how many chat requests have been started
    objs,              \* the Session objects ever created (an object is its index)
    sessions,          \* SessionManager.sessions
    create_lock,       \* holder of SessionManager._session_locks["create"], 0: free
    session_locks,     \* holder of SessionManager._session_locks[session_id]
    db_sessions,       \* the sessions table of the durable store
    db_messages,       \* the number of session_messages rows of each session id
    procs,             \* the ClaudeProcess handles (ClaudeService.active_processes)
    session_processes, \* ClaudeService.session_processes: conversation id -> handle
    reqs,              \* the chat requests in flight, one per slot
    sweep,             \* the cleanup task
    last_done,         \* history: the session of each user at the last reply
    idle_gap,          \* history: the session was expired since the last reply
    stopped_live,      \* history: the sessions that were live at the last shutdown
    event,             \* history: what the last step observed
    \* ---- ClaudeProcess.send_message and its consumer
    sm_pc,             \* where the send_message generator stands
    sm_proc,           \* the CLI subprocess of the call
    sm_consumer,       \* the task that iterates the generator
    sm_items,          \* how many output items the generator has yielded
    sm_cancel,         \* history: how the consumer's cancellation arrived
    sm_out,            \* what the subprocess has written: item lines on stdout,
                       \* and the bytes on stderr when it ended
    sm_raised,         \* the exception the generator raised to its consumer
    \* ---- PortManager and the launcher
    used_ports,        \* PortManager._used_ports
    given_ports,       \* history: ports find_available_port returned, not freed since
    os_ports,          \* the ports of the range some program listens on
    port_result,       \* history: the last PortManager call and its result
    config_port,       \* config.port
    launch,            \* history: the call of start_server of this run
    \* ---- The byte-wise reader of send_message
    dec_units,         \* the output of the CLI, as a sequence of byte sequences
    dec_pc,            \* where the read loop stands
    dec_pos,           \* how many bytes of the output have been read
    byte_buffer,       \* the bytes read and not yet decoded
    line_buffer,       \* the decoded text not yet split off as a line
    appended,          \* history: all the text ever appended to line_buffer
    line_count,        \* how many lines have been split off
    discarded,         \* history: the byte buffer was given up at least once
    \* ---- The TodoWrite display
    todo_input,        \* tool_input["todos"] of the tool call
    todo_display,      \* what _format_todo_write_display returned
    \* ---- SessionManager, called directly
    m_now,             \* datetime.now(), in ticks
    m_objs,            \* the Session objects ever created (an object is its index)
    m_sessions,        \* SessionManager.sessions: id -> object, 0: not cached
    m_db,              \* the sessions table of the durable store
    m_msgs,            \* the number of session_messages rows of each session id
    m_locks,           \* holders of SessionManager._session_locks, 0: free
    m_total,           \* stats['total_sessions_created']
    m_calls,           \* the call each caller has under way
    m_started,         \* history: how many calls were made, and of which methods
    m_done,            \* history: the call that ended last, with what it found
                       \* when it began and what it left
    m_hist,            \* history: how many create_session calls returned, raised
    m_mutation,        \* history: the last change of a cached session
    m_dbq,             \* the tasks whose durable-store call is pending, in the
                       \* order DatabaseManager._lock serves them
    m_sweep,           \* the cleanup task (0 in m_dbq)
    m_swept,           \* history: the last session the cleanup task removed
    m_store,           \* whether the durable store executes its statements (up;
                       \* else they raise), and how often it has stopped doing so
    \* ---- Backend Process Manager on its own
    pm_handles,        \* every ClaudeProcess built, by process id
    pm_active,         \* ClaudeService.active_processes: the process ids in it
    pm_session,        \* ClaudeService.session_processes: conversation id -> handle
    pm_calls,          \* the get_or_create_process calls awaiting start
    pm_done,           \* history: the call that ended last, the registries
                       \* when it began and when it ended
    pm_ever,           \* history: the handles that were ever registered
    pm_ops             \* history: how many calls were made

keyVars == <<api_key_enabled, clock, usage_storage, key_result, key_hist>>
gateVars == <<gate_request, gate_response>>
streamVars == <<claude_output, st_pc, st_next, parsed_contents, sse>>

sessVars == <<up, boots, now, convs, started, objs, sessions, create_lock,
              session_locks, db_sessions, db_messages, procs, session_processes,
              reqs, sweep, last_done, idle_gap, stopped_live, event>>

sendVars == <<sm_pc, sm_proc, sm_consumer, sm_items, sm_cancel, sm_out, sm_raised>>

portVars == <<used_ports, given_ports, os_ports, port_result, config_port, launch>>

decVars == <<dec_units, dec_pc, dec_pos, byte_buffer, line_buffer, appended,
             line_count, discarded>>

todoVars == <<todo_input, todo_display>>
mgrVars == <<m_now, m_objs, m_sessions, m_db, m_msgs, m_locks, m_total, m_calls,
             m_started, m_done, m_hist, m_mutation, m_dbq, m_sweep, m_swept,
             m_store>>

\* The components that are modelled on their own.
pmVars == <<pm_handles, pm_active, pm_session, pm_calls, pm_done, pm_ever, pm_ops>>

extraVars == <<sendVars, portVars, decVars, todoVars, mgrVars, pmVars>>

vars == <<keyVars, gateVars, streamVars, sessVars, extraVars>>

\* What the actions of each component leave alone.
keyOthers == <<gateVars, streamVars, sessVars, extraVars>>
gateOthers == <<streamVars, sessVars, extraVars>>
streamOthers == <<keyVars, gateVars, sessVars, extraVars>>
sessOthers == <<keyVars, gateVars, streamVars, extraVars>>
mainVars == <<keyVars, gateVars, streamVars, sessVars>>
sendOthers == <<mainVars, portVars, decVars, todoVars, mgrVars, pmVars>>
portOthers == <<mainVars, sendVars, decVars, todoVars, mgrVars, pmVars>>
decOthers == <<mainVars, sendVars, portVars, todoVars, mgrVars, pmVars>>
todoOthers == <<mainVars, sendVars, portVars, decVars, mgrVars, pmVars>>
mgrOthers == <<mainVars, sendVars, portVars, decVars, todoVars, pmVars>>

Min(a, b) == IF a < b THEN a ELSE b

(***************************************************************************)
(*                       KEY & QUOTA SERVICE                               *)
(***************************************************************************)

\* Bounds of the model.
MaxClock == 5          \* the clock runs over 0..MaxClock
MaxCalls == 4          \* validations recorded per key and period

\* Length of one UTC day and of one month, in clock ticks.  A month is a fixed
\* two days here; the calendar (month lengths, the December roll-over) is not
\* modelled.
DayTicks == 2
MonthTicks == 4

NoUsage == [none |-> TRUE]
NoResult == [op |-> "none"]

\* config.api_keys: the configured APIKeyConfig list.
api_keys ==
    << [key |-> "key-day-0001",   max_requests |-> 2, period |-> "day"],
       [key |-> "key-month-01",   max_requests |-> 1, period |-> "month"] >>

ConfiguredKeys == { api_keys[i].key : i \in 1..Len(api_keys) }

\* Keys a caller may present: the configured ones and one that is not configured.
PresentedKeys == ConfiguredKeys \cup {"key-unknown1"}

get_api_key_config_by_prefix(api_key) ==
    IF \E i \in 1..Len(api_keys) : SubSeq(api_keys[i].key, 1, 4) = SubSeq(api_key, 1, 4)
    THEN api_keys[CHOOSE i \in 1..Len(api_keys) :
                      /\ SubSeq(api_keys[i].key, 1, 4) = SubSeq(api_key, 1, 4)
                      /\ \A l \in 1..(i-1) :
                             SubSeq(api_keys[l].key, 1, 4) # SubSeq(api_key, 1, 4)]
    ELSE [none |-> TRUE]

\* Config.get_api_key_config: the first configuration whose key matches exactly,
\* or None.
get_api_key_config(api_key) ==
    IF \E i \in 1..Len(api_keys) : api_keys[i].key = api_key
    THEN LET i == CHOOSE j \in 1..Len(api_keys) :
                      /\ api_keys[j].key = api_key
                      /\ \A l \in 1..(j-1) : api_keys[l].key # api_key
         IN  api_keys[i]
    ELSE NoUsage

\* APIKeyService._calculate_period_bounds: the period of the given kind that
\* contains `t`: <<start, end>>.
calculate_period_bounds(period, t) ==
    IF period = "day"
    THEN <<t - (t % DayTicks), t - (t % DayTicks) + DayTicks>>
    ELSE <<t - (t % MonthTicks), t - (t % MonthTicks) + MonthTicks>>

\* APIKeyUsage.is_period_expired
is_period_expired(usage, t) == t > usage.period_end

can_make_request_off_by_one(usage, max_requests) ==
    usage.current_period_requests <= max_requests

\* APIKeyUsage.can_make_request
can_make_request(usage, max_requests) ==
    usage.current_period_requests < max_requests

\* APIKeyUsage.record_request
record_request(usage, t) ==
    [usage EXCEPT !.current_period_requests = @ + 1, !.last_used = t]

reset_period_keeps_count(usage, new_start, new_end) ==
    [usage EXCEPT !.period_start = new_start, !.period_end = new_end]

\* APIKeyUsage.reset_period
reset_period(usage, new_start, new_end) ==
    [usage EXCEPT !.current_period_requests = 0,
                  !.period_start = new_start,
                  !.period_end = new_end]

\* APIKeyService._get_or_create_usage: the usage record of the key after the
\* call (created when absent, reset when its period has elapsed).
get_or_create_usage(cfg, storage, t) ==
    LET b == calculate_period_bounds(cfg.period, t) IN
    IF storage[cfg.key] = NoUsage
    THEN [api_key |-> cfg.key, current_period_requests |-> 0,
          period_start |-> b[1], period_end |-> b[2], last_used |-> -1]
    ELSE IF is_period_expired(storage[cfg.key], t)
         THEN reset_period(storage[cfg.key], b[1], b[2])
         ELSE storage[cfg.key]

\* Whether _get_or_create_usage starts a new period for the key (a new record or
\* a rolled-over one).
StartsPeriod(cfg, storage, t) ==
    \/ storage[cfg.key] = NoUsage
    \/ is_period_expired(storage[cfg.key], t)

\* APIKeyValidationError.rate_limit_exceeded: retry_after is attached only when
\* it is truthy.
rate_limit_exceeded(retry_after) ==
    IF retry_after # 0
    THEN [type |-> "rate_limit_exceeded", has_retry_after |-> TRUE,
          retry_after |-> retry_after]
    ELSE [type |-> "rate_limit_exceeded", has_retry_after |-> FALSE,
          retry_after |-> 0]

invalid_key == [type |-> "invalid_api_key", has_retry_after |-> FALSE, retry_after |-> 0]

NoError == [type |-> "none", has_retry_after |-> FALSE, retry_after |-> 0]

\* The result a validation is recorded with: what validate_api_key returned
\* (valid, error) for the key at the time `at`, and as history the usage record
\* the call found (`before`) and the administrative reset that preceded it
\* directly, if one did (`after`).
Validated(api_key, valid, error, before, after) ==
    [op |-> "validate", key |-> api_key, valid |-> valid, error |-> error,
     at |-> clock, before |-> before, after |-> after]

\* The last operation, when it was a reset_usage of the key.
LastReset(api_key) ==
    IF key_result.op = "reset" /\ key_result.key = api_key
    THEN key_result ELSE NoResult

\* APIKeyService.validate_api_key.  The coroutine has no point at which it is
\* suspended: the service lock is never held across an await, so acquiring it
\* never yields, and the check and the increment run in one piece.
validate_api_key(api_key) ==
    LET cfg == get_api_key_config(api_key) IN
    IF ~api_key_enabled
    THEN /\ key_result' = Validated(api_key, TRUE, NoError, NoUsage, NoResult)
         /\ UNCHANGED <<usage_storage, key_hist>>
    ELSE IF cfg = NoUsage
    THEN /\ key_result' = Validated(api_key, FALSE, invalid_key, NoUsage, NoResult)
         /\ UNCHANGED <<usage_storage, key_hist>>
    ELSE LET usage == get_or_create_usage(cfg, usage_storage, clock)
             hist  == IF StartsPeriod(cfg, usage_storage, clock)
                      THEN << >> ELSE key_hist[api_key]
         IN  /\ Len(hist) < MaxCalls
             /\ IF ~can_make_request(usage, cfg.max_requests)
                THEN /\ usage_storage' = [usage_storage EXCEPT ![api_key] = usage]
                     /\ key_result' =
                            Validated(api_key, FALSE,
                                      rate_limit_exceeded(usage.period_end - clock),
                                      usage_storage[api_key], LastReset(api_key))
                     /\ key_hist' = [key_hist EXCEPT
                                       ![api_key] = Append(hist, "rate_limit_exceeded")]
                ELSE /\ usage_storage' = [usage_storage EXCEPT
                                            ![api_key] = record_request(usage, clock)]
                     /\ key_result' =
                            Validated(api_key, TRUE, NoError,
                                      usage_storage[api_key], LastReset(api_key))
                     /\ key_hist' = [key_hist EXCEPT ![api_key] = Append(hist, "ok")]

ValidateApiKey ==
    /\ \E k \in PresentedKeys : validate_api_key(k)
    /\ UNCHANGED <<api_key_enabled, clock, keyOthers>>

\* APIKeyService.get_usage_stats
get_usage_stats(api_key) ==
    LET cfg == get_api_key_config(api_key) IN
    IF ~api_key_enabled \/ cfg = NoUsage
    THEN /\ key_result' = [op |-> "stats", key |-> api_key, found |-> FALSE]
         /\ UNCHANGED <<usage_storage, key_hist>>
    ELSE LET usage == get_or_create_usage(cfg, usage_storage, clock) IN
         /\ usage_storage' = [usage_storage EXCEPT ![api_key] = usage]
         /\ key_hist' = IF StartsPeriod(cfg, usage_storage, clock)
                        THEN [key_hist EXCEPT ![api_key] = << >>]
                        ELSE key_hist
         /\ key_result' = [op |-> "stats", key |-> api_key, found |-> TRUE,
                           current_period_requests |-> usage.current_period_requests,
                           remaining_requests |->
                               cfg.max_requests - usage.current_period_requests]

GetUsageStats ==
    /\ \E k \in PresentedKeys : get_usage_stats(k)
    /\ UNCHANGED <<api_key_enabled, clock, keyOthers>>

reset_usage_zeroes_counter(api_key) ==
    IF usage_storage[api_key] # [none |-> TRUE]
    THEN /\ usage_storage' = [usage_storage EXCEPT
                                ![api_key].current_period_requests = 0]
         /\ key_hist' = [key_hist EXCEPT ![api_key] = << >>]
         /\ key_result' = [op |-> "reset", key |-> api_key, done |-> TRUE,
                           count |-> usage_storage[api_key].current_period_requests]
    ELSE /\ key_result' = [op |-> "reset", key |-> api_key, done |-> FALSE,
                           count |-> -1]
         /\ UNCHANGED <<usage_storage, key_hist>>

\* Variant: the reset drops the usage records of all keys.
reset_usage_of_all(api_key) ==
    IF usage_storage[api_key] # [none |-> TRUE]
    THEN /\ usage_storage' = [k \in DOMAIN usage_storage |-> [none |-> TRUE]]
         /\ key_hist' = [k \in DOMAIN key_hist |-> << >>]
         /\ key_result' = [op |-> "reset", key |-> api_key, done |-> TRUE,
                           count |-> usage_storage[api_key].current_period_requests]
    ELSE /\ key_result' = [op |-> "reset", key |-> api_key, done |-> FALSE,
                           count |-> -1]
         /\ UNCHANGED <<usage_storage, key_hist>>

\* APIKeyService.reset_usage
\* The result records, as history, the counter of the usage record that was
\* deleted (`count`); a reset that finds no record directly after a reset of
\* the same key keeps the count of that one, and has -1 otherwise.
reset_usage(api_key) ==
    IF usage_storage[api_key] # NoUsage
    THEN /\ usage_storage' = [usage_storage EXCEPT ![api_key] = NoUsage]
         /\ key_hist' = [key_hist EXCEPT ![api_key] = << >>]
         /\ key_result' = [op |-> "reset", key |-> api_key, done |-> TRUE,
                           count |-> usage_storage[api_key].current_period_requests]
    ELSE /\ key_result' = [op |-> "reset", key |-> api_key, done |-> FALSE,
                           count |-> IF LastReset(api_key) # NoResult
                                     THEN key_result.count ELSE -1]
         /\ UNCHANGED <<usage_storage, key_hist>>

ResetUsage ==
    /\ \E k \in PresentedKeys : reset_usage(k)
    /\ UNCHANGED <<api_key_enabled, clock, keyOthers>>

\* Time passes.
KeyTick ==
    /\ clock < MaxClock
    /\ clock' = clock + 1
    /\ UNCHANGED <<api_key_enabled, usage_storage, key_result, key_hist, keyOthers>>

KeyInit ==
    /\ api_key_enabled \in BOOLEAN
    /\ clock = 0
    /\ usage_storage = [k \in PresentedKeys |-> NoUsage]
    /\ key_result = NoResult
    /\ key_hist = [k \in PresentedKeys |-> << >>]

KeyNext ==
    \/ ValidateApiKey
    \/ GetUsageStats
    \/ ResetUsage
    \/ KeyTick


(***************************************************************************)
(*                     KEY-AUTHENTICATION GATE                             *)
(***************************************************************************)

\* An optional string that is absent (Python's None).
Absent == "<absent>"

\* APIKeyAuthMiddleware.EXCLUDED_PATHS
EXCLUDED_PATHS ==
    {"/health", "/docs", "/redoc", "/openapi.json", "/favicon.ico", "/",
     "/v1/models", "/models"}

\* str.startswith
startswith(s, prefix) ==
    /\ Len(s) >= Len(prefix)
    /\ SubSeq(s, 1, Len(prefix)) = prefix

\* The paths requests are sent to: the excluded ones, paths under /static, the
\* mounted routes, and near misses of the excluded ones.
GatePaths ==
    EXCLUDED_PATHS \cup
    {"/static", "/static/app.js", "/staticfiles", "/stati",
     "/v1/", "/v1/detailed", "/v1/ready", "/v1/live",
     "/v1/chat/completions", "/v1/api-key/stats", "/health/", "/v1/models/"}

GateMethods == {"GET", "POST", "PUT", "PATCH", "DELETE"}

\* The Authorization header of a request (Absent when there is none).
GateAuthorizations ==
    {Absent, "Bearer key-day-0001", "bearer key-unknown1", "BEARER key-month-01",
     "Basic key-day-0001", "Bearerkey-day-0001", "Bearer "}

\* The api_key query parameter (Absent when there is none).
GateQueryKeys == {Absent, "", "key-day-0001"}

\* The request body, by what json.loads makes of it:
\*   empty            b""
\*   not_json         bytes that are no JSON document
\*   object_key       an object with an "api_key" member (api_key gives its value)
\*   object_nokey     an object without one
\*   array            an array without the element "api_key"
\*   array_key        an array with the element "api_key"
\*   string           a JSON string that does not contain the text api_key
\*   string_key       a JSON string that contains the text api_key
\*   number, null     a JSON number, the JSON null
GateBodies ==
    { [kind |-> k, api_key |-> Absent] :
          k \in {"empty", "not_json", "object_nokey", "array", "array_key",
                 "string", "string_key", "number", "null"} }
    \cup { [kind |-> "object_key", api_key |-> v] : v \in {"key-day-0001", "key-unknown1"} }

\* str.lower, on the schemes that occur.
lower(s) ==
    CASE s = "Bearer" -> "bearer"
      [] s = "BEARER" -> "bearer"
      [] s = "Basic"  -> "basic"
      [] OTHER        -> s

\* The index of the first blank of s, 0 when it has none.
FirstBlank(s) ==
    IF \E i \in 1..Len(s) : SubSeq(s, i, i) = " "
    THEN CHOOSE i \in 1..Len(s) :
             /\ SubSeq(s, i, i) = " "
             /\ \A j \in 1..(i-1) : SubSeq(s, j, j) # " "
    ELSE 0

\* The outcome of APIKeyAuthMiddleware._extract_api_key:
\* [raised |-> FALSE, key |-> the key or Absent], or [raised |-> TRUE] when the
\* statement `"api_key" in body_data` or `body_data["api_key"]` raises TypeError,
\* which the method does not catch.
extract_api_key(request) ==
    LET authorization == request.authorization
        blank == IF authorization = Absent THEN 0 ELSE FirstBlank(authorization)
        bearer ==
            /\ authorization # Absent
            /\ authorization # ""
            /\ blank # 0
            /\ lower(SubSeq(authorization, 1, blank - 1)) = "bearer"
        body == request.body
    IN  IF bearer
        THEN [raised |-> FALSE,
              key |-> SubSeq(authorization, blank + 1, Len(authorization))]
        ELSE IF request.query_api_key # Absent /\ request.query_api_key # ""
        THEN [raised |-> FALSE, key |-> request.query_api_key]
        ELSE IF request.method \in {"POST", "PUT", "PATCH"}
        THEN CASE body.kind \in {"empty", "not_json"} ->
                      [raised |-> FALSE, key |-> Absent]
               [] body.kind = "object_key" ->
                      [raised |-> FALSE, key |-> body.api_key]
               [] body.kind \in {"object_nokey", "array", "string"} ->
                      [raised |-> FALSE, key |-> Absent]
               [] body.kind \in {"array_key", "string_key", "number", "null"} ->
                      [raised |-> TRUE, key |-> Absent]
        ELSE [raised |-> FALSE, key |-> Absent]

\* The test of dispatch for a path that needs no key.
excluded(path) == path \in EXCLUDED_PATHS \/ startswith(path, "/static")

\* The response of call_next: the inner application handled the request.
call_next(request) ==
    [status |-> 200, type |-> "none", handler_invoked |-> TRUE, state_api_key |-> Absent]

\* APIKeyAuthMiddleware._create_error_response
create_error_response(error_type, status_code) ==
    [status |-> status_code, type |-> error_type, handler_invoked |-> FALSE,
     state_api_key |-> Absent]

\* APIKeyAuthMiddleware.dispatch
dispatch(request) ==
    /\ IF excluded(request.path) \/ ~api_key_enabled
       THEN /\ gate_response' = call_next(request)
            /\ UNCHANGED <<usage_storage, key_result, key_hist>>
       ELSE LET x == extract_api_key(request) IN
            IF x.raised
            THEN /\ gate_response' = create_error_response("internal_error", 500)
                 /\ UNCHANGED <<usage_storage, key_result, key_hist>>
            ELSE IF x.key = Absent
            THEN /\ gate_response' = create_error_response("missing_api_key", 401)
                 /\ UNCHANGED <<usage_storage, key_result, key_hist>>
            ELSE /\ validate_api_key(x.key)
                 /\ gate_response' =
                        IF key_result'.valid
                        THEN [call_next(request) EXCEPT !.state_api_key = x.key]
                        ELSE create_error_response(key_result'.error.type, 401)

GateRequests ==
    [path : GatePaths, method : GateMethods, authorization : GateAuthorizations,
     query_api_key : GateQueryKeys, body : GateBodies]

\* The client sends its request (once more).
Dispatch ==
    /\ dispatch(gate_request)
    /\ UNCHANGED <<api_key_enabled, clock, gate_request, gateOthers>>

GateTick ==
    /\ clock < MaxClock
    /\ clock' = clock + 1
    /\ UNCHANGED <<api_key_enabled, usage_storage, key_result, key_hist, gateVars,
                   gateOthers>>

GateIdle ==
    /\ gate_request = NoResult
    /\ gate_response = NoResult

(***************************************************************************)
(*                       STREAMING TRANSLATOR                              *)
(***************************************************************************)

\* Bound of the model: the number of items the backend line stream yields.
MaxLines == 2

\* One character of s.
Char(s, i) == SubSeq(s, i, i)

\* str.lower, character by character.
LowerChar(c) ==
    CASE c = "A" -> "a" [] c = "B" -> "b" [] c = "C" -> "c" [] c = "D" -> "d"
      [] c = "E" -> "e" [] c = "F" -> "f" [] c = "G" -> "g" [] c = "H" -> "h"
      [] c = "I" -> "i" [] c = "J" -> "j" [] c = "K" -> "k" [] c = "L" -> "l"
      [] c = "M" -> "m" [] c = "N" -> "n" [] c = "O" -> "o" [] c = "P" -> "p"
      [] c = "Q" -> "q" [] c = "R" -> "r" [] c = "S" -> "s" [] c = "T" -> "t"
      [] c = "U" -> "u" [] c = "V" -> "v" [] c = "W" -> "w" [] c = "X" -> "x"
      [] c = "Y" -> "y" [] c = "Z" -> "z" [] OTHER -> c

RECURSIVE LowerFrom(_, _)
LowerFrom(s, i) ==
    IF i > Len(s) THEN "" ELSE LowerChar(Char(s, i)) \o LowerFrom(s, i + 1)

text_lower(s) == LowerFrom(s, 1)

\* Python's `keyword in text`.
Contains(text, keyword) ==
    \E i \in 1..(Len(text) - Len(keyword) + 1) :
        SubSeq(text, i, i + Len(keyword) - 1) = keyword

\* Whether text.strip() is empty.
IsBlank(text) == \A i \in 1..Len(text) : Char(text, i) \in {" ", "\t", "\n", "\r"}

\* ClaudeContentParser.__init__: the keyword lists (their ASCII members).
error_keywords ==
    {"error", "failed", "problem", "unable", "limitation", "API Error"}
planning_keywords ==
    {"plan", "step", "task", "framework", "structure", "organize", "TodoWrite"}
thinking_keywords == {"approach", "strategy", "thinking", "consider"}
execution_keywords ==
    {"execute", "start", "begin", "proceed", "WebSearch", "WebFetch"}
analysis_keywords ==
    {"analyze", "research", "findings", "results", "data", "trends"}

any_keyword(text, keywords) == \E keyword \in keywords : Contains(text, keyword)

\* ClaudeContentParser._classify_text_content
classify_text_content(text) ==
    LET t == text_lower(text) IN
    IF any_keyword(t, error_keywords) THEN "error_handling"
    ELSE IF any_keyword(t, planning_keywords) THEN "planning"
    ELSE IF any_keyword(t, thinking_keywords) THEN "thinking"
    ELSE IF any_keyword(t, execution_keywords) THEN "execution"
    ELSE IF any_keyword(t, analysis_keywords) THEN "analysis"
    ELSE "regular_text"

\* ClaudeContentParser.parse_text_content
parse_text_content(text) ==
    IF IsBlank(text)
    THEN [content_type |-> "regular_text", content |-> text]
    ELSE [content_type |-> classify_text_content(text), content |-> text]

NoFrame == [kind |-> "none"]

\* A chat.completion.chunk frame: its delta and finish_reason.  `side` names the
\* side-channel object of the delta.
Chunk(role, content, side, finish_reason) ==
    [kind |-> "chunk", role |-> role, content |-> content, side |-> side,
     finish_reason |-> finish_reason]

DoneFrame == [kind |-> "done"]

ErrorFrame(type, code) == [kind |-> "error", type |-> type, code |-> code]

\* StreamService._create_structured_response: the chunk for one classified line,
\* NoFrame when the method returns None.
create_structured_response(parsed_content) ==
    CASE parsed_content.content_type = "thinking" ->
             Chunk(Absent, parsed_content.content, "thinking_process", Absent)
      [] parsed_content.content_type = "planning" ->
             Chunk(Absent, parsed_content.content, "planning_process", Absent)
      [] parsed_content.content_type = "tool_use" ->
             Chunk(Absent, parsed_content.content, "tool_usage", Absent)
      [] parsed_content.content_type = "execution" ->
             Chunk(Absent, parsed_content.content, "execution_process", Absent)
      [] parsed_content.content_type = "error_handling" ->
             Chunk(Absent, parsed_content.content, "error_handling", Absent)
      [] parsed_content.content_type = "regular_text" ->
             Chunk(Absent, parsed_content.content, "none", Absent)
      [] OTHER -> NoFrame

\* StreamService._create_summary_response
create_summary_response == Chunk(Absent, Absent, "claude_analysis", Absent)

\* The lines the backend stream is made of.
StreamLines ==
    {"", " \n", "Hello there", "Plan failed", "next step", "let me consider",
     "start now", "research data", "use WebSearch", "consider data"}

RECURSIVE SeqsUpTo(_, _)
SeqsUpTo(S, n) ==
    IF n = 0 THEN {<< >>}
    ELSE LET shorter == SeqsUpTo(S, n - 1)
         IN  shorter \cup { Append(q, x) : q \in shorter, x \in S }

\* create_claude_stream, lines 45-52: the initial chunk.
EmitInitial ==
    /\ st_pc = "initial"
    /\ sse' = Append(sse, Chunk("assistant", "", "none", Absent))
    /\ st_pc' = "lines"
    /\ UNCHANGED <<claude_output, st_next, parsed_contents, streamOthers>>

\* create_claude_stream, lines 57-77: one item of claude_output.
ConsumeLine ==
    /\ st_pc = "lines"
    /\ st_next <= Len(claude_output.lines)
    /\ claude_output.raises_at # st_next
    /\ LET line == claude_output.lines[st_next]
           parsed_content == parse_text_content(line)
           response_data == create_structured_response(parsed_content)
       IN  IF IsBlank(line)
           THEN UNCHANGED <<parsed_contents, sse>>
           ELSE /\ parsed_contents' = Append(parsed_contents, parsed_content)
                /\ sse' = IF response_data # NoFrame
                          THEN Append(sse, response_data) ELSE sse
    /\ st_next' = st_next + 1
    /\ UNCHANGED <<claude_output, st_pc, streamOthers>>

EmitSummary_unconditional ==
    /\ st_pc = "lines"
    /\ st_next = Len(claude_output.lines) + 1
    /\ claude_output.raises_at # st_next
    /\ sse' = Append(sse, create_summary_response)
    /\ st_pc' = "finish"
    /\ UNCHANGED <<claude_output, st_next, parsed_contents, streamOthers>>

\* create_claude_stream, lines 79-85: the stream has ended; the summary chunk.
EmitSummary ==
    /\ st_pc = "lines"
    /\ st_next = Len(claude_output.lines) + 1
    /\ claude_output.raises_at # st_next
    /\ sse' = IF parsed_contents # << >>
              THEN Append(sse, create_summary_response) ELSE sse
    /\ st_pc' = "finish"
    /\ UNCHANGED <<claude_output, st_next, parsed_contents, streamOthers>>

\* create_claude_stream, lines 87-94: the finish chunk.
EmitFinish ==
    /\ st_pc = "finish"
    /\ sse' = Append(sse, Chunk(Absent, Absent, "none", "stop"))
    /\ st_pc' = "done_marker"
    /\ UNCHANGED <<claude_output, st_next, parsed_contents, streamOthers>>

\* create_claude_stream, line 97: the terminal marker.
EmitDone ==
    /\ st_pc = "done_marker"
    /\ sse' = Append(sse, DoneFrame)
    /\ st_pc' = "end"
    /\ UNCHANGED <<claude_output, st_next, parsed_contents, streamOthers>>

EmitError_then_finish ==
    /\ st_pc = "lines"
    /\ claude_output.raises_at = st_next
    /\ sse' = Append(sse, ErrorFrame("streaming_error", "stream_interrupted"))
    /\ st_pc' = "finish"
    /\ UNCHANGED <<claude_output, st_next, parsed_contents, streamOthers>>

\* create_claude_stream, lines 99-110: claude_output raises (send_message
\* reports a failure of the backend); the error frame is sent and the generator
\* returns.  Nothing escapes to generate() of the chat route, whose own handler
\* therefore adds no frame.
EmitError ==
    /\ st_pc = "lines"
    /\ claude_output.raises_at = st_next
    /\ sse' = Append(sse, ErrorFrame("streaming_error", "stream_interrupted"))
    /\ st_pc' = "end"
    /\ UNCHANGED <<claude_output, st_next, parsed_contents, streamOthers>>

StreamIdle ==
    /\ claude_output = [lines |-> << >>, raises_at |-> 0]
    /\ st_pc = "idle"
    /\ st_next = 1
    /\ parsed_contents = << >>
    /\ sse = << >>


(***************************************************************************)
(*   CHAT ROUTE, SESSION MANAGER, DURABLE STORE, BACKEND PROCESS MANAGER   *)
(*                                                                         *)
(* One step of a coroutine runs from the point where it resumes to the     *)
(* effect of the next call it awaits.  The durable store serialises its    *)
(* operations in the order they are issued (DatabaseManager._lock, one     *)
(* connection), so the effect of an awaited store call is applied at the   *)
(* end of the step that issues it; what other coroutines do before the     *)
(* caller resumes is what the interleaving of steps explores.              *)
(***************************************************************************)

\* Bounds of the model.
MaxTime == 3          \* the session clock runs from 0 to MaxTime
MaxRequests == 2      \* chat requests with a user field started in one behaviour
MaxAnonymous == 1     \* chat requests without a user field in one behaviour
MaxBoots == 2         \* starts of the application in one behaviour
MaxConvs == 2         \* conversation ids the backend issues

\* Session.timeout_minutes, in ticks of the session clock.
TimeoutTicks == 1

\* The values of the `user` field of chat requests (the session ids).
Users == {"abc123"}

\* SessionCreateRequest.create_session, session.py 81: the id generated for the
\* n-th request when it has no user field, f"session_{uuid.uuid4().hex[:12]}".
TempId(n) == "session_00000000000" \o ToString(n)

TempIds == { TempId(n) : n \in 1..MaxAnonymous }

\* The session ids: the keys of the cache, of the locks and of the durable rows.
SessionIds == Users \cup TempIds

\* The request slots: chat requests in flight at the same time.
Slots == {1, 2}

\* The n-th conversation id the backend issues.
ConvId(n) == "conv-" \o ToString(n)

ConvIds == { ConvId(n) : n \in 1..(MaxConvs + 1) }

NoRow == [none |-> TRUE]

\* ---- Session (models/session.py)

\* SessionCreateRequest.create_session -> Session(...)
\* A JSON value that is a dict, or the text of one: `encoded` tells how often
\* json.dumps was applied to the dict.
Dict(keys) == [encoded |-> 0, dict |-> keys]

json_dumps(value) == [value EXCEPT !.encoded = @ + 1]

json_loads(text) == [text EXCEPT !.encoded = @ - 1]

NewSession(session_id, t) ==
    [session_id |-> session_id, last_activity |-> t, message_count |-> 0,
     claude_session_id |-> Absent, is_active |-> TRUE, metadata |-> Dict({})]

\* Session.update_activity
update_activity(session, t) ==
    [session EXCEPT !.last_activity = t, !.message_count = @ + 1]

is_expired_at_timeout(session, t) == t >= session.last_activity + TimeoutTicks

\* Session.is_expired
is_expired(session, t) == t > session.last_activity + TimeoutTicks

\* ---- SessionManager.sessions, a dict in insertion order: a sequence of
\* [id, obj] where obj is the index of the Session object in objs.

Index(dict, id) ==
    IF \E i \in 1..Len(dict) : dict[i].id = id
    THEN CHOOSE i \in 1..Len(dict) : dict[i].id = id
    ELSE 0

Has(dict, id) == Index(dict, id) # 0

\* Variant: the first entry is answered, whatever the key.
Lookup_first(dict, id) == dict[1].obj

\* dict[id]
Lookup(dict, id) == dict[Index(dict, id)].obj

\* dict[id] = obj
Store(dict, id, obj) ==
    IF Has(dict, id)
    THEN [dict EXCEPT ![Index(dict, id)].obj = obj]
    ELSE Append(dict, [id |-> id, obj |-> obj])

\* dict.pop(id, None), the dict that is left
Pop(dict, id) ==
    IF Has(dict, id)
    THEN SubSeq(dict, 1, Index(dict, id) - 1)
             \o SubSeq(dict, Index(dict, id) + 1, Len(dict))
    ELSE dict

\* ---- DatabaseManager (services/database.py), the sessions table as a
\* function from session id to row, the session_messages table as the number
\* of rows of each session id.

\* DatabaseManager.create_session: the INSERT fails on an existing primary key
\* and the failure is swallowed.
db_create_session(db, session) ==
    IF db[session.session_id] # NoRow THEN db
    ELSE [db EXCEPT ![session.session_id] =
              [claude_session_id |-> session.claude_session_id,
               last_activity |-> session.last_activity,
               message_count |-> 0,
               is_active |-> session.is_active,
               metadata |-> json_dumps(Dict({}))]]

\* DatabaseManager.update_session: UPDATE ... WHERE session_id = ?
db_update_session(db, session_id, updates) ==
    IF db[session_id] = NoRow THEN db
    ELSE [db EXCEPT ![session_id] =
              [f \in DOMAIN db[session_id] |->
                  IF f \notin DOMAIN updates THEN db[session_id][f]
                  ELSE IF f = "metadata" THEN json_dumps(updates[f])
                  ELSE updates[f]]]

\* DatabaseManager.delete_session
\* Variant: the row is left in place.
db_delete_session_kept(db, session_id) == db

db_delete_session(db, session_id) == [db EXCEPT ![session_id] = NoRow]

\* DatabaseManager.get_session
db_get_session(db, session_id) == db[session_id]

\* ---- Observations (history variables read by the properties only)

NoObs == [called |-> FALSE]

\* A call of SessionManager.get_session: the id, the cached object it examined
\* (0 when the id was not cached) with the last_activity it had, and the object
\* returned (0 for None).
GetObs(id, obj, last_activity, returned) ==
    [called |-> TRUE, id |-> id, obj |-> obj, last_activity |-> last_activity,
     returned |-> returned]

\* get_or_create_session past its memory lookup: the durable row it read and
\* what it did with it.
GocObs(id, row, outcome, after_stop) ==
    [called |-> TRUE, id |-> id, row |-> row, outcome |-> outcome,
     after_stop |-> after_stop]

Ev(get, goc, reply) == [get |-> get, goc |-> goc, reply |-> reply]

NoEvent == Ev(NoObs, NoObs, NoObs)

NoPrev == [done |-> FALSE, obj |-> 0, count |-> 0, last_activity |-> 0, boot |-> 0]

NotStopped == [live |-> FALSE, last_activity |-> 0, claude_session_id |-> Absent]

\* ---- Chat requests in flight

IdleReq ==
    [pc |-> "idle", user |-> Absent, stream |-> FALSE, ctx |-> "none",
     session |-> 0, created |-> 0, db_session |-> NoRow, cid |-> Absent,
     proc |-> 0, update_id |-> Absent, prev |-> NoPrev, gap |-> FALSE]

IdleSweep == [pc |-> "sleep", phase |-> "none", todo |-> << >>, cleaned |-> 0,
              row |-> NoRow]

\* The cached Session objects that are active and not expired.
ActiveObjs ==
    { sessions[k].obj : k \in { j \in 1..Len(sessions) :
                                   /\ objs[sessions[j].obj].is_active
                                   /\ ~is_expired(objs[sessions[j].obj], now) } }

\* SessionManager.get_active_session_count
get_active_session_count == Cardinality(ActiveObjs)

\* Whether the session of user u is past its timeout at time t, by the latest
\* activity recorded for it (cache, else durable row, else the last reply).
ExpiredRef(u, t) ==
    IF Has(sessions, u) THEN is_expired(objs[Lookup(sessions, u)], t)
    ELSE IF db_sessions[u] # NoRow
         THEN t > db_sessions[u].last_activity + TimeoutTicks
         ELSE last_done[u].done /\ t > last_done[u].last_activity + TimeoutTicks

\* The request of slot i ends (its reply is complete): the slot is free again.
\* objs1, sessions1 and procs1 are the values the step leaves.
Complete(i, r, status, type, replied, objs1, sessions1, procs1, get, goc) ==
    LET u == r.user
        o == IF Has(sessions1, u) THEN Lookup(sessions1, u) ELSE 0
    IN  /\ reqs' = [reqs EXCEPT ![i] = IdleReq]
        /\ last_done' =
               IF o # 0
               THEN [last_done EXCEPT ![u] =
                        [done |-> TRUE, obj |-> o,
                         count |-> objs1[o].message_count,
                         last_activity |-> objs1[o].last_activity,
                         boot |-> boots]]
               ELSE last_done
        /\ idle_gap' =
               IF o # 0
               THEN [idle_gap EXCEPT ![u] = is_expired(objs1[o], now)]
               ELSE idle_gap
        /\ LET reply ==
                   [called |-> TRUE, user |-> u, stream |-> r.stream,
                    status |-> status, type |-> type, replied |-> replied,
                    prev |-> r.prev, gap |-> r.gap,
                    discovered |-> IF r.proc # 0
                                   THEN procs1[r.proc].claude_session_id
                                   ELSE Absent]
           IN  event' = Ev(get, goc, reply)

\* ---- SessionManager.get_or_create_session and its callers

\* What every step of a request leaves alone unless it says otherwise.
reqFixed == <<up, boots, now, convs, sweep, stopped_live, sessOthers>>

\* get_or_create_session(u) is entered by the request r of slot i, from the chat
\* route (ctx "chat", chat.py 71-74) or from add_message_to_session (ctx
\* "addmsg", session_manager.py 228).  The step runs to the first durable-store
\* call that is awaited.
GocEnter(i, r, ctx) ==
    LET u == r.user
        o == IF Has(sessions, u) THEN Lookup(sessions, u) ELSE 0
    IN  IF o # 0 /\ ~is_expired(objs[o], now)
        THEN \* get_session returns the cached session; line 186; for the chat
             \* route the call of add_message_to_session follows in the same
             \* step (its own lookup, line 186 again); then lines 240-245.
             LET a1 == update_activity(objs[o], now)
                 a2 == IF ctx = "chat" THEN update_activity(a1, now) ELSE a1
                 a3 == update_activity(a2, now)
             IN  /\ objs' = [objs EXCEPT ![o] = a3]
                 /\ db_sessions' =
                        db_update_session(db_sessions, u, [last_activity |-> now])
                 /\ reqs' = [reqs EXCEPT ![i] =
                        [r EXCEPT !.pc = "am_upd", !.ctx = "addmsg",
                                  !.session = IF ctx = "chat" THEN o ELSE @]]
                 /\ event' = Ev(GetObs(u, o, objs[o].last_activity, o), NoObs, NoObs)
                 /\ UNCHANGED <<sessions, last_done, idle_gap>>
        ELSE IF o # 0
        THEN \* get_session finds it expired: remove_session, lines 157-163
             /\ objs' = [objs EXCEPT ![o].is_active = FALSE]
             /\ sessions' = Pop(sessions, u)
             /\ db_sessions' = db_delete_session(db_sessions, u)
             /\ reqs' = [reqs EXCEPT ![i] = [r EXCEPT !.pc = "goc_rm", !.ctx = ctx]]
             /\ event' = Ev(GetObs(u, o, objs[o].last_activity, 0), NoObs, NoObs)
             /\ UNCHANGED <<last_done, idle_gap>>
        ELSE \* not cached: line 191, the durable row is read
             /\ reqs' = [reqs EXCEPT ![i] =
                    [r EXCEPT !.pc = "goc_db", !.ctx = ctx,
                              !.db_session = db_get_session(db_sessions, u)]]
             /\ event' = Ev(GetObs(u, 0, 0, 0), NoObs, NoObs)
             /\ UNCHANGED <<objs, sessions, db_sessions, last_done, idle_gap>>

\* ---- Request validation of the chat route

MaxMessages == 2

\* MessageRole, message.py
Roles == {"system", "user", "assistant"}

\* The role sequences of the messages lists of the requests considered.
MessageLists == SeqsUpTo(Roles, MaxMessages)

\* ChatCompletionRequest.validate_messages (with min_items=1 of the field):
\* whether the list is accepted by the request model.
validate_messages(v) ==
    /\ Len(v) >= 1
    /\ \A k \in 1..Len(v) :
          /\ ~(v[k] = "system" /\ k > 1)
          /\ ~(k > 1 /\ v[k] = "assistant" /\ v[k - 1] = "assistant")

\* Variant: the last message stands for the last user message.
get_last_message(v) == Len(v)

\* ChatCompletionRequest.get_last_user_message: the position of the last
\* message of role user, 0 for None.
get_last_user_message(v) ==
    LET users == { k \in 1..Len(v) : v[k] = "user" }
    IN  IF users = {} THEN 0 ELSE CHOOSE k \in users : \A j \in users : j <= k

\* create_openai_error_response / ErrorResponse.create(...).model_dump()
create_openai_error_response(error_type) ==
    [error |-> [type |-> error_type], object |-> "error"]

\* validation_exception_handler: the reply to a request the request model
\* refused.
validation_exception_handler ==
    [status_code |-> 400,
     content |-> create_openai_error_response("invalid_request_error")]

\* http_exception_handler for an HTTPException whose detail is a dict.
http_exception_handler(status_code, detail) ==
    [status_code |-> status_code, content |-> detail]

\* The request ends before the route has called the session manager or the
\* process manager: only the reply is observed.
Rejected(u, stream, messages, response) ==
    /\ event' = Ev(NoObs, NoObs,
                   [called |-> TRUE, user |-> u, stream |-> stream,
                    status |-> response.status_code,
                    type |-> response.content.error.type, replied |-> FALSE,
                    prev |-> last_done[u], gap |-> idle_gap[u],
                    discovered |-> Absent, messages |-> messages])
    /\ UNCHANGED <<reqs, objs, sessions, db_sessions, last_done, idle_gap>>

\* chat_completions is called with a user field (chat.py 42-74).
ReqStart(i, u, stream) ==
    /\ up
    /\ started < MaxRequests
    /\ reqs[i].pc = "idle"
    /\ \A j \in Slots : j < i => reqs[j].pc # "idle"
    /\ started' = started + 1
    /\ GocEnter(i, [IdleReq EXCEPT !.user = u, !.stream = stream,
                                   !.prev = last_done[u], !.gap = idle_gap[u]],
                "chat")
    /\ UNCHANGED <<reqFixed, create_lock, session_locks, db_messages, procs,
                   session_processes>>

\* POST /v1/chat/completions with the messages list `messages` (roles only):
\* request-model validation, then chat.py 42-74.
ChatCompletions(i, u, stream, messages) ==
    IF ~validate_messages(messages)
    THEN \* RequestValidationError before the route body runs
         /\ up
         /\ started < MaxRequests
         /\ i = 1
         /\ started' = started + 1
         /\ Rejected(u, stream, messages, validation_exception_handler)
         /\ UNCHANGED <<reqFixed, create_lock, session_locks, db_messages,
                        procs, session_processes>>
    ELSE IF Len(messages) = 0 \/ get_last_user_message(messages) = 0
    THEN \* ValidationError raised at lines 45 or 61, HTTPException 400 at 154
         /\ up
         /\ started < MaxRequests
         /\ i = 1
         /\ started' = started + 1
         /\ Rejected(u, stream, messages,
                     http_exception_handler(400,
                         create_openai_error_response("invalid_request_error")))
         /\ UNCHANGED <<reqFixed, create_lock, session_locks, db_messages,
                        procs, session_processes>>
    ELSE ReqStart(i, u, stream)

\* get_session has returned None after removing the expired session
\* (session_manager.py 113-114, 183-191): the durable row is read.
GocRemoved(i) ==
    /\ up
    /\ reqs[i].pc = "goc_rm"
    /\ reqs' = [reqs EXCEPT ![i].pc = "goc_db",
                            ![i].db_session = db_get_session(db_sessions, reqs[i].user)]
    /\ event' = NoEvent
    /\ UNCHANGED <<reqFixed, started, objs, sessions, create_lock, session_locks,
                   db_sessions, db_messages, procs, session_processes, last_done,
                   idle_gap>>

\* create_session inside its lock (session_manager.py 66-88).
CreateLocked(i, r, goc) ==
    LET u == r.user
        n == Len(objs) + 1
    IN  IF Has(sessions, u) /\ objs[Lookup(sessions, u)].is_active
        THEN \* SessionError: the route answers 500
             /\ Complete(i, r, 500, "session_error", FALSE, objs, sessions, procs,
                         NoObs, goc)
             /\ UNCHANGED <<objs, sessions, db_sessions, create_lock>>
        ELSE /\ objs' = Append(objs, NewSession(u, now))
             /\ sessions' = Store(sessions, u, n)
             /\ db_sessions' = db_create_session(db_sessions, NewSession(u, now))
             /\ create_lock' = i
             /\ reqs' = [reqs EXCEPT ![i] = [r EXCEPT !.pc = "cs_ins", !.created = n]]
             /\ event' = Ev(NoObs, goc, NoObs)
             /\ UNCHANGED <<last_done, idle_gap>>

\* How many requests without a user field were started: those that wait for
\* the creation lock and those whose session was created.
Anonymous ==
    Cardinality({ i \in Slots : reqs[i].user \in TempIds /\ reqs[i].pc = "cs_wait" })
        + Cardinality({ o \in 1..Len(objs) : objs[o].session_id \in TempIds })

\* chat_completions is called without a user field, with messages the request
\* model accepts (chat.py 79-90): create_session with a SessionCreateRequest
\* that names no id, up to its first await or to the wait for the creation
\* lock.
ChatCompletionsAnonymous(i, stream) ==
    LET u == TempId(Anonymous + 1)
        r == [IdleReq EXCEPT !.user = u, !.stream = stream, !.ctx = "chat",
                             !.prev = last_done[u], !.gap = idle_gap[u]]
    IN  /\ up
        /\ Anonymous < MaxAnonymous
        /\ reqs[i].pc = "idle"
        /\ \A j \in Slots : j < i => reqs[j].pc # "idle"
        /\ UNCHANGED started
        /\ IF create_lock # 0
           THEN /\ reqs' = [reqs EXCEPT ![i] = [r EXCEPT !.pc = "cs_wait"]]
                /\ event' = NoEvent
                /\ UNCHANGED <<objs, sessions, db_sessions, create_lock,
                               last_done, idle_gap>>
           ELSE CreateLocked(i, r, NoObs)
        /\ UNCHANGED <<reqFixed, session_locks, db_messages, procs,
                       session_processes>>

\* get_or_create_session has the answer of the durable store
\* (session_manager.py 192-219).  A row that is found is never loaded: building
\* the SessionCreateRequest raises TypeError when the caller passed
\* claude_working_dir (line 195-199, the chat route always does), and otherwise
\* datetime.fromisoformat raises TypeError on the datetime that
\* DatabaseManager.get_session returns (line 202, database.py 165).  Either is
\* raised before line 203, and the chat route answers 500.
GocDb(i) ==
    LET r == reqs[i]
        u == r.user
        goc == GocObs(u, r.db_session,
                      IF r.db_session # NoRow THEN "raised" ELSE "create",
                      stopped_live[u])
    IN  /\ up
        /\ r.pc = "goc_db"
        /\ stopped_live' = [stopped_live EXCEPT ![u] = NotStopped]
        /\ IF r.db_session # NoRow
           THEN /\ Complete(i, r, 500, "internal_server_error", FALSE, objs,
                            sessions, procs, NoObs, goc)
                /\ UNCHANGED <<objs, sessions, db_sessions, create_lock>>
           ELSE IF create_lock # 0
           THEN /\ reqs' = [reqs EXCEPT ![i].pc = "cs_wait"]
                /\ event' = Ev(NoObs, goc, NoObs)
                /\ UNCHANGED <<objs, sessions, db_sessions, create_lock, last_done,
                               idle_gap>>
           ELSE CreateLocked(i, r, goc)
        /\ UNCHANGED <<up, boots, now, convs, sweep, started, session_locks,
                       db_messages, procs, session_processes, sessOthers>>

\* create_session gets the lock it waited for.
CreateWait(i) ==
    /\ up
    /\ reqs[i].pc = "cs_wait"
    /\ create_lock = 0
    /\ CreateLocked(i, reqs[i], NoObs)
    /\ UNCHANGED <<reqFixed, started, session_locks, db_messages, procs,
                   session_processes>>

\* create_session returns (session_manager.py 90-98): to the chat route, which
\* calls add_message_to_session (chat.py 92-95), or to add_message_to_session,
\* which goes on with lines 240-245.
Created(i) ==
    LET r == reqs[i]
    IN  /\ up
        /\ r.pc = "cs_ins"
        /\ create_lock' = 0
        /\ IF r.ctx = "chat"
           THEN GocEnter(i, [r EXCEPT !.session = r.created], "addmsg")
           ELSE /\ objs' = [objs EXCEPT ![r.created] = update_activity(@, now)]
                /\ db_sessions' =
                       db_update_session(db_sessions, r.user, [last_activity |-> now])
                /\ reqs' = [reqs EXCEPT ![i].pc = "am_upd"]
                /\ event' = NoEvent
                /\ UNCHANGED <<sessions, last_done, idle_gap>>
        /\ UNCHANGED <<reqFixed, started, session_locks, db_messages, procs,
                       session_processes>>

\* add_message_to_session, lines 247-253: the message row is written.
AddMsgRow(i) ==
    /\ up
    /\ reqs[i].pc = "am_upd"
    /\ db_messages' = [db_messages EXCEPT ![reqs[i].user] = @ + 1]
    /\ reqs' = [reqs EXCEPT ![i].pc = "am_msg"]
    /\ event' = NoEvent
    /\ UNCHANGED <<reqFixed, started, objs, sessions, create_lock, session_locks,
                   db_sessions, procs, session_processes, last_done, idle_gap>>

\* ---- The chat route after add_message_to_session (chat.py 97-152)

\* SessionManager.update_session inside the session's lock
\* (session_manager.py 121-140), asked to store the conversation id d.
UpdateLocked(i, r, d, procs1) ==
    LET u == r.user
        o == IF Has(sessions, u) THEN Lookup(sessions, u) ELSE 0
    IN  IF o = 0
        THEN \* get_session returns None: SessionError, the route answers 500
             /\ Complete(i, r, 500, "session_error", FALSE, objs, sessions, procs1,
                         GetObs(u, 0, 0, 0), NoObs)
             /\ UNCHANGED <<objs, sessions, db_sessions, session_locks>>
        ELSE IF is_expired(objs[o], now)
        THEN \* get_session removes the expired session (lines 157-163)
             /\ objs' = [objs EXCEPT ![o].is_active = FALSE]
             /\ sessions' = Pop(sessions, u)
             /\ db_sessions' = db_delete_session(db_sessions, u)
             /\ session_locks' = [session_locks EXCEPT ![u] = i]
             /\ reqs' = [reqs EXCEPT ![i] = [r EXCEPT !.pc = "us_rm"]]
             /\ event' = Ev(GetObs(u, o, objs[o].last_activity, 0), NoObs, NoObs)
             /\ UNCHANGED <<last_done, idle_gap>>
        ELSE \* apply_to_session, update_activity, the durable update
             /\ objs' = [objs EXCEPT ![o] =
                    update_activity([@ EXCEPT !.claude_session_id = d], now)]
             /\ db_sessions' = db_update_session(db_sessions, u,
                    [claude_session_id |-> d, last_activity |-> now])
             /\ session_locks' = [session_locks EXCEPT ![u] = i]
             /\ reqs' = [reqs EXCEPT ![i] = [r EXCEPT !.pc = "us_upd"]]
             /\ event' = Ev(GetObs(u, o, objs[o].last_activity, o), NoObs, NoObs)
             /\ UNCHANGED <<sessions, last_done, idle_gap>>

\* The route hands the response back (chat.py 152).  A streaming response is
\* returned before its body is generated: the backend has not run yet.
Respond(i, r, procs1) ==
    /\ IF r.stream
       THEN /\ reqs' = [reqs EXCEPT ![i] = [r EXCEPT !.pc = "streaming"]]
            /\ event' = NoEvent
            /\ UNCHANGED <<last_done, idle_gap>>
       ELSE Complete(i, r, 200, "none", TRUE, objs, sessions, procs1, NoObs, NoObs)
    /\ UNCHANGED <<objs, sessions, db_sessions, session_locks>>

\* chat.py 139-152: the conversation id of the handle is compared with the one
\* of the session the route holds, and stored when it differs.
StoreDiscovered(i, r, procs1) ==
    LET d == procs1[r.proc].claude_session_id
    IN  IF d # Absent /\ d # objs[r.session].claude_session_id
        THEN IF session_locks[r.user] # 0
             THEN /\ reqs' = [reqs EXCEPT ![i] =
                         [r EXCEPT !.pc = "us_wait", !.update_id = d]]
                  /\ event' = NoEvent
                  /\ UNCHANGED <<objs, sessions, db_sessions, session_locks,
                                 last_done, idle_gap>>
             ELSE UpdateLocked(i, r, d, procs1)
        ELSE Respond(i, r, procs1)

\* The route has a handle (chat.py 109-137): a streaming request goes on to
\* line 140 at once, a non-streaming one starts the backend and waits for it.
AfterProcess(i, r, procs1) ==
    IF r.stream
    THEN StoreDiscovered(i, r, procs1)
    ELSE /\ reqs' = [reqs EXCEPT ![i] = [r EXCEPT !.pc = "backend"]]
         /\ event' = NoEvent
         /\ UNCHANGED <<objs, sessions, db_sessions, session_locks, last_done,
                        idle_gap>>

\* add_message_to_session has returned; ClaudeService.get_or_create_process
\* (claude_service.py 464-511) with the conversation id of the route's session.
GetProcess(i) ==
    LET r == reqs[i]
        cid == objs[r.session].claude_session_id
        h == IF cid # Absent THEN session_processes[cid] ELSE 0
    IN  /\ up
        /\ r.pc = "am_msg"
        /\ IF h # 0 /\ procs[h].is_running
           THEN AfterProcess(i, [r EXCEPT !.cid = cid, !.proc = h], procs)
           ELSE /\ reqs' = [reqs EXCEPT ![i] = [r EXCEPT !.pc = "proc_start",
                                                        !.cid = cid]]
                /\ event' = NoEvent
                /\ UNCHANGED <<objs, sessions, db_sessions, session_locks,
                               last_done, idle_gap>>
        /\ UNCHANGED <<reqFixed, started, create_lock, db_messages, procs,
                       session_processes>>

\* ClaudeProcess.start has ended (claude_service.py 53-95, 498-511): with the CLI
\* found, the handle is registered; otherwise ClaudeProcessError, answered 500.
ProcStarted(i, ok) ==
    LET r == reqs[i]
        h == Len(procs) + 1
        procs1 == Append(procs, [session_id |-> r.cid, claude_session_id |-> Absent,
                                 is_running |-> TRUE, user |-> r.user])
    IN  /\ up
        /\ r.pc = "proc_start"
        /\ IF ok
           THEN /\ procs' = procs1
                /\ session_processes' =
                       IF r.cid # Absent
                       THEN [session_processes EXCEPT ![r.cid] = h]
                       ELSE session_processes
                /\ AfterProcess(i, [r EXCEPT !.proc = h], procs1)
           ELSE /\ Complete(i, r, 500, "claude_process_error", FALSE, objs,
                            sessions, procs, NoObs, NoObs)
                /\ UNCHANGED <<objs, sessions, db_sessions, session_locks, procs,
                               session_processes>>
        /\ UNCHANGED <<reqFixed, started, create_lock, db_messages>>

\* The conversation ids one run of the backend for handle h can report: a new
\* one, or for a run resumed with -r the resumed one.
Reportable(h) ==
    (IF convs < MaxConvs THEN {ConvId(convs + 1)} ELSE {})
        \cup (IF procs[h].session_id # Absent THEN {procs[h].session_id} ELSE {})

\* ClaudeProcess.send_message, lines 181-187: the first session_id seen is kept.
Discover(h, e) ==
    IF e # Absent /\ procs[h].claude_session_id = Absent
    THEN [procs EXCEPT ![h].claude_session_id = e]
    ELSE procs

\* The backend has run for a non-streaming request (chat.py 132-152, 228-253):
\* it reported the conversation id e (Absent: none) and ended well (ok) or not.
BackendReply(i, e, ok) ==
    LET r == reqs[i]
        procs1 == Discover(r.proc, e)
    IN  /\ up
        /\ r.pc = "backend"
        /\ e = Absent => ~ok
        /\ e # Absent => e \in Reportable(r.proc)
        /\ procs' = procs1
        /\ convs' = IF e = ConvId(convs + 1) THEN convs + 1 ELSE convs
        /\ IF ok
           THEN StoreDiscovered(i, r, procs1)
           ELSE /\ Complete(i, r, 500, "internal_server_error", FALSE, objs,
                            sessions, procs1, NoObs, NoObs)
                /\ UNCHANGED <<objs, sessions, db_sessions, session_locks>>
        /\ UNCHANGED <<up, boots, now, sweep, stopped_live, started, create_lock,
                       db_messages, session_processes, sessOthers>>

\* update_session gets the lock it waited for.
UpdateWait(i) ==
    /\ up
    /\ reqs[i].pc = "us_wait"
    /\ session_locks[reqs[i].user] = 0
    /\ UpdateLocked(i, reqs[i], reqs[i].update_id, procs)
    /\ UNCHANGED <<reqFixed, started, create_lock, db_messages, procs,
                   session_processes>>

\* update_session after get_session removed the session: SessionError
\* (session_manager.py 122-123), answered 500.
UpdateRemoved(i) ==
    /\ up
    /\ reqs[i].pc = "us_rm"
    /\ session_locks' = [session_locks EXCEPT ![reqs[i].user] = 0]
    /\ Complete(i, reqs[i], 500, "session_error", FALSE, objs, sessions, procs,
                NoObs, NoObs)
    /\ UNCHANGED <<reqFixed, started, objs, sessions, create_lock, db_sessions,
                   db_messages, procs, session_processes>>

\* update_session returns (session_manager.py 142-147) and the route hands the
\* response back.
UpdateDone(i) ==
    LET r == reqs[i]
    IN  /\ up
        /\ r.pc = "us_upd"
        /\ session_locks' = [session_locks EXCEPT ![r.user] = 0]
        /\ IF r.stream
           THEN /\ reqs' = [reqs EXCEPT ![i].pc = "streaming"]
                /\ event' = NoEvent
                /\ UNCHANGED <<last_done, idle_gap>>
           ELSE Complete(i, r, 200, "none", TRUE, objs, sessions, procs, NoObs, NoObs)
        /\ UNCHANGED <<reqFixed, started, objs, sessions, create_lock, db_sessions,
                       db_messages, procs, session_processes>>

\* The body of a streaming response is generated (chat.py 187-209): the backend
\* runs now, reports the conversation id e and ends well or not; the stream
\* ends either way.
StreamBackend(i, e, ok) ==
    LET r == reqs[i]
        procs1 == Discover(r.proc, e)
    IN  /\ up
        /\ r.pc = "streaming"
        /\ e = Absent => ~ok
        /\ e # Absent => e \in Reportable(r.proc)
        /\ procs' = procs1
        /\ convs' = IF e = ConvId(convs + 1) THEN convs + 1 ELSE convs
        /\ Complete(i, r, 200, "none", ok, objs, sessions, procs1, NoObs, NoObs)
        /\ UNCHANGED <<up, boots, now, sweep, stopped_live, started, objs, sessions,
                       create_lock, session_locks, db_sessions, db_messages,
                       session_processes, sessOthers>>

\* ---- The background sweep (session_manager.py 274-326)

sweepFixed == <<up, boots, now, convs, started, create_lock, session_locks,
                db_messages, procs, session_processes, reqs, last_done, idle_gap,
                stopped_live, sessOthers>>

\* The Session objects cached, in the order of the dict.
CachedObjs == [k \in 1..Len(sessions) |-> sessions[k].obj]

IsExpiredNow(o) == is_expired(objs[o], now)

\* SessionManager.get_expired_sessions
get_expired_sessions == SelectSeq(CachedObjs, IsExpiredNow)

\* remove_session(id) up to the durable-store call it awaits first
\* (session_manager.py 151-163), for the head of the sweep's list.
SweepRemove(phase, todo, cleaned) ==
    LET id == objs[Head(todo)].session_id
    IN  IF Has(sessions, id)
        THEN /\ objs' = [objs EXCEPT ![Lookup(sessions, id)].is_active = FALSE]
             /\ sessions' = Pop(sessions, id)
             /\ db_sessions' = db_delete_session(db_sessions, id)
             /\ sweep' = [pc |-> "rm_del", phase |-> phase, todo |-> Tail(todo),
                          cleaned |-> cleaned, row |-> NoRow]
        ELSE /\ sweep' = [pc |-> "rm_get", phase |-> phase, todo |-> todo,
                          cleaned |-> cleaned,
                          row |-> db_get_session(db_sessions, id)]
             /\ UNCHANGED <<objs, sessions, db_sessions>>

\* get_active_sessions (lines 263-272) over what is left of its list: sessions
\* that are not expired are passed over, the first expired one is removed.
SweepActive(todo, cleaned) ==
    IF \E k \in 1..Len(todo) : IsExpiredNow(todo[k])
    THEN LET k == CHOOSE j \in 1..Len(todo) :
                      /\ IsExpiredNow(todo[j])
                      /\ \A m \in 1..(j - 1) : ~IsExpiredNow(todo[m])
         IN  SweepRemove("active", SubSeq(todo, k, Len(todo)), cleaned)
    ELSE /\ sweep' = IdleSweep
         /\ UNCHANGED <<objs, sessions, db_sessions>>

\* The pass goes on after a remove_session call has returned.
SweepContinue(phase, todo, cleaned) ==
    IF phase = "expired"
    THEN IF todo # << >>
         THEN SweepRemove("expired", todo, cleaned)
         ELSE IF cleaned > 0
              THEN SweepActive(CachedObjs, cleaned)
              ELSE /\ sweep' = IdleSweep
                   /\ UNCHANGED <<objs, sessions, db_sessions>>
    ELSE SweepActive(todo, cleaned)

\* _cleanup_loop wakes up: cleanup_expired_sessions lists the expired sessions
\* and starts removing them.
SweepStart ==
    /\ up
    /\ sweep.pc = "sleep"
    /\ SweepContinue("expired", get_expired_sessions, 0)
    /\ event' = NoEvent
    /\ UNCHANGED sweepFixed

\* The durable-store call remove_session awaited has returned.
SweepResume ==
    /\ up
    /\ sweep.pc \in {"rm_del", "rm_get"}
    /\ IF sweep.pc = "rm_del"
       THEN \* remove_session returns True
            SweepContinue(sweep.phase, sweep.todo,
                          IF sweep.phase = "expired" THEN sweep.cleaned + 1
                          ELSE sweep.cleaned)
       ELSE IF sweep.row = NoRow
       THEN \* remove_session returns False (lines 153-155)
            SweepContinue(sweep.phase, Tail(sweep.todo), sweep.cleaned)
       ELSE \* lines 157-163, for an id that was not cached at line 151
            LET id == objs[Head(sweep.todo)].session_id
            IN  /\ objs' = IF Has(sessions, id)
                           THEN [objs EXCEPT ![Lookup(sessions, id)].is_active = FALSE]
                           ELSE objs
                /\ sessions' = Pop(sessions, id)
                /\ db_sessions' = db_delete_session(db_sessions, id)
                /\ sweep' = [sweep EXCEPT !.pc = "rm_del", !.todo = Tail(@),
                                          !.row = NoRow]
    /\ event' = NoEvent
    /\ UNCHANGED sweepFixed

\* ---- Time and the life of the application

\* Time passes.
Tick ==
    /\ now < MaxTime
    /\ now' = now + 1
    /\ reqs' = [i \in Slots |->
                   IF reqs[i].pc # "idle" /\ ExpiredRef(reqs[i].user, now + 1)
                   THEN [reqs[i] EXCEPT !.gap = TRUE] ELSE reqs[i]]
    /\ idle_gap' = [u \in SessionIds |-> idle_gap[u] \/ ExpiredRef(u, now + 1)]
    /\ event' = NoEvent
    /\ UNCHANGED <<up, boots, convs, started, objs, sessions, create_lock,
                   session_locks, db_sessions, db_messages, procs,
                   session_processes, sweep, last_done, stopped_live, sessOthers>>

\* The process is killed: what it held in memory is gone, the durable store
\* keeps what was committed.
Crash ==
    /\ up
    /\ boots < MaxBoots
    /\ up' = FALSE
    /\ sessions' = << >>
    /\ create_lock' = 0
    /\ session_locks' = [u \in SessionIds |-> 0]
    /\ procs' = << >>
    /\ session_processes' = [c \in ConvIds |-> 0]
    /\ reqs' = [i \in Slots |-> IdleReq]
    /\ sweep' = IdleSweep
    /\ event' = NoEvent
    /\ UNCHANGED <<boots, now, convs, started, objs, db_sessions, db_messages,
                   last_done, idle_gap, stopped_live, sessOthers>>

\* Application shutdown (main.py 38-56) once the requests in flight are
\* answered: SessionManager.stop (lines 47-62) cancels the sweep, removes every
\* cached session with remove_session (cleanup_all_sessions, lines 301-314) and
\* closes the store; then cleanup_all_processes (claude_service.py 563-567).
Shutdown ==
    /\ up
    /\ boots < MaxBoots
    /\ \A i \in Slots : reqs[i].pc = "idle"
    /\ sweep.pc = "sleep"
    /\ up' = FALSE
    /\ objs' = [o \in 1..Len(objs) |->
                   IF \E k \in 1..Len(sessions) : sessions[k].obj = o
                   THEN [objs[o] EXCEPT !.is_active = FALSE] ELSE objs[o]]
    /\ sessions' = << >>
    /\ db_sessions' = [u \in SessionIds |->
                          IF Has(sessions, u) THEN NoRow ELSE db_sessions[u]]
    /\ procs' = << >>
    /\ session_processes' = [c \in ConvIds |-> 0]
    /\ stopped_live' = [u \in SessionIds |->
           IF Has(sessions, u) /\ ~is_expired(objs[Lookup(sessions, u)], now)
           THEN [live |-> TRUE,
                 last_activity |-> objs[Lookup(sessions, u)].last_activity,
                 claude_session_id |-> objs[Lookup(sessions, u)].claude_session_id]
           ELSE NotStopped]
    /\ event' = NoEvent
    /\ UNCHANGED <<boots, now, convs, started, create_lock, session_locks,
                   db_messages, reqs, sweep, last_done, idle_gap, sessOthers>>

\* Application startup (main.py 22-34, SessionManager.start lines 38-45).
Startup ==
    /\ ~up
    /\ up' = TRUE
    /\ boots' = boots + 1
    /\ event' = NoEvent
    /\ UNCHANGED <<now, convs, started, objs, sessions, create_lock, session_locks,
                   db_sessions, db_messages, procs, session_processes, reqs, sweep,
                   last_done, idle_gap, stopped_live, sessOthers>>

SessIdle ==
    /\ up = TRUE
    /\ boots = 1
    /\ now = 0
    /\ convs = 0
    /\ started = 0
    /\ objs = << >>
    /\ sessions = << >>
    /\ create_lock = 0
    /\ session_locks = [u \in SessionIds |-> 0]
    /\ db_sessions = [u \in SessionIds |-> NoRow]
    /\ db_messages = [u \in SessionIds |-> 0]
    /\ procs = << >>
    /\ session_processes = [c \in ConvIds |-> 0]
    /\ reqs = [i \in Slots |-> IdleReq]
    /\ sweep = IdleSweep
    /\ last_done = [u \in SessionIds |-> NoPrev]
    /\ idle_gap = [u \in SessionIds |-> FALSE]
    /\ stopped_live = [u \in SessionIds |-> NotStopped]
    /\ event = NoEvent

(***************************************************************************)
(*        utils/port_manager.py and the launcher, cli/server.py            *)
(***************************************************************************)

\* Config.port_range_start and Config.port; the range has RangeSize ports.
port_range_start == 9000
default_port == 9000
RangeSize == 3

port_range_end == port_range_start + RangeSize - 1

\* range(self.start_port, self.end_port + 1)
PortRange == port_range_start..port_range_end

\* The ports considered: the range and one port above it.
Ports == port_range_start..(port_range_end + 1)

\* The values of --port: None (the empty set) or an integer.
PortArgs == {{}} \cup {{p} : p \in {0} \cup Ports}

\* The values Config.port can have when the launcher starts: its default, or
\* what the environment sets.
ConfiguredPorts == {default_port, 0, port_range_end + 1}

NoPortResult == [op |-> "none"]

NoLaunch == [called |-> FALSE]

\* Variant: the reserved set is not consulted.
is_port_available_unreserved(port, used, listening) == port \notin listening

\* PortManager.is_port_available: not reserved, and connect_ex does not reach
\* a listener.
is_port_available(port, used, listening) ==
    IF port \in used THEN FALSE ELSE port \notin listening

\* PortManager.find_available_port: the sequential scan; ok is FALSE for
\* RuntimeError("No available ports found in range ...").
find_available_port(used, listening) ==
    LET free == { p \in PortRange : is_port_available(p, used, listening) }
    IN  IF free # {}
        THEN LET port == CHOOSE p \in free : \A q \in free : p <= q
             IN  [ok |-> TRUE, port |-> port, used |-> used \cup {port}]
        ELSE [ok |-> FALSE, port |-> 0, used |-> used]

\* What a call of find_available_port leaves in the manager.
Found(f) ==
    /\ used_ports' = f.used
    /\ given_ports' = IF f.ok THEN given_ports \cup {f.port} ELSE given_ports
    /\ port_result' = [op |-> "find", ok |-> f.ok, port |-> f.port,
                       before |-> used_ports, listening |-> os_ports,
                       given |-> given_ports]

\* find_available_port(host), the module's convenience function.
FindAvailablePort ==
    /\ ~launch.called
    /\ Found(find_available_port(used_ports, os_ports))
    /\ UNCHANGED <<os_ports, config_port, launch, portOthers>>

\* PortManager.reserve_port
ReservePort(port) ==
    LET ok == is_port_available(port, used_ports, os_ports)
    IN  /\ ~launch.called
        /\ used_ports' = IF ok THEN used_ports \cup {port} ELSE used_ports
        /\ port_result' = [op |-> "reserve", ok |-> ok, port |-> port,
                           before |-> used_ports]
        /\ UNCHANGED <<given_ports, os_ports, config_port, launch, portOthers>>

\* PortManager.release_port
ReleasePort(port) ==
    /\ ~launch.called
    /\ used_ports' = used_ports \ {port}
    /\ given_ports' = given_ports \ {port}
    /\ port_result' = [op |-> "release", port |-> port]
    /\ UNCHANGED <<os_ports, config_port, launch, portOthers>>

\* PortManager.clear_used_ports
ClearUsedPorts ==
    /\ ~launch.called
    /\ used_ports' = {}
    /\ given_ports' = {}
    /\ port_result' = [op |-> "clear"]
    /\ UNCHANGED <<os_ports, config_port, launch, portOthers>>

\* Some program of the host starts or stops listening on a port of the range.
OsListen(port) ==
    /\ os_ports' = IF port \in os_ports THEN os_ports \ {port}
                   ELSE os_ports \cup {port}
    /\ UNCHANGED <<used_ports, given_ports, port_result, config_port, launch,
                   portOthers>>

\* start_server(port=args.port), lines 146-160: the port the server is
\* configured to listen on.  `if port:` skips None and 0.  The launcher is the
\* whole run: start_server is its first and only caller of the port manager,
\* and it serves until the process ends.
StartServer(arg) ==
    LET given == arg # {} /\ arg # {0}
        configured == IF given THEN CHOOSE p \in arg : TRUE ELSE config_port
        f == find_available_port(used_ports, os_ports)
    IN  /\ ~launch.called
        /\ port_result = NoPortResult
        /\ IF configured = 0
           THEN /\ Found(f)
                /\ config_port' = IF f.ok THEN f.port ELSE configured
                /\ launch' = [called |-> TRUE, arg |-> arg, env |-> config_port,
                              discovered |-> TRUE, exited |-> ~f.ok,
                              port |-> f.port]
           ELSE /\ config_port' = configured
                /\ launch' = [called |-> TRUE, arg |-> arg, env |-> config_port,
                              discovered |-> FALSE, exited |-> FALSE,
                              port |-> configured]
                /\ UNCHANGED <<used_ports, given_ports, port_result>>
        /\ UNCHANGED <<os_ports, portOthers>>

\* A new run of the program: Config() is built and no PortManager exists yet.
PortBoot(configured) ==
    /\ launch.called \/ port_result.op # "none"
    /\ config_port' = configured
    /\ used_ports' = {}
    /\ given_ports' = {}
    /\ port_result' = NoPortResult
    /\ launch' = NoLaunch
    /\ UNCHANGED <<os_ports, portOthers>>

PortIdle ==
    /\ used_ports = {}
    /\ given_ports = {}
    /\ os_ports = {}
    /\ port_result = NoPortResult
    /\ config_port = default_port
    /\ launch = NoLaunch

(***************************************************************************)
(*   ClaudeProcess.send_message: the byte-wise reader of the CLI's stdout  *)
(***************************************************************************)

MaxChars == 3

\* The units an output stream is made of, as byte sequences: "A", "\n",
\* U+00E9, U+4E2D, U+1F600, and two that are no UTF-8: a lone continuation
\* byte and the lead byte of a four-byte sequence with nothing after it.
ValidUnits ==
    {<<65>>, <<10>>, <<195, 169>>, <<228, 184, 173>>, <<240, 159, 152, 128>>}

InvalidUnits == {<<128>>, <<240>>}

Units == ValidUnits \cup InvalidUnits

\* The code point a valid unit encodes.
CodePoint(unit) ==
    CASE unit = <<65>> -> 65
      [] unit = <<10>> -> 10
      [] unit = <<195, 169>> -> 233
      [] unit = <<228, 184, 173>> -> 20013
      [] unit = <<240, 159, 152, 128>> -> 128512

RECURSIVE Flatten(_)
Flatten(units) ==
    IF units = << >> THEN << >> ELSE Head(units) \o Flatten(Tail(units))

IsContinuation(b) == 128 <= b /\ b <= 191

\* The length of the sequence a lead byte announces, 0 for a byte that can
\* start none.
SequenceLength(b0) ==
    IF b0 < 128 THEN 1
    ELSE IF 194 <= b0 /\ b0 <= 223 THEN 2
    ELSE IF 224 <= b0 /\ b0 <= 239 THEN 3
    ELSE IF 240 <= b0 /\ b0 <= 244 THEN 4
    ELSE 0

\* The second byte of a sequence is restricted further after some lead bytes
\* (no overlong forms, no surrogates, nothing above U+10FFFF).
SecondByteOk(b0, b1) ==
    CASE b0 = 224 -> 160 <= b1 /\ b1 <= 191
      [] b0 = 237 -> 128 <= b1 /\ b1 <= 159
      [] b0 = 240 -> 144 <= b1 /\ b1 <= 191
      [] b0 = 244 -> 128 <= b1 /\ b1 <= 143
      [] OTHER -> IsContinuation(b1)

\* bytes.decode('utf-8') from position i on: the code points, or the failure
\* that stands for UnicodeDecodeError.
RECURSIVE DecodeFrom(_, _)
DecodeFrom(b, i) ==
    IF i > Len(b) THEN [ok |-> TRUE, text |-> << >>]
    ELSE LET n == SequenceLength(b[i])
             fits == n >= 1 /\ i + n - 1 <= Len(b)
             wellformed ==
                 /\ fits
                 /\ n >= 2 => SecondByteOk(b[i], b[i + 1])
                 /\ \A k \in 2..(n - 1) : IsContinuation(b[i + k])
             cp == CASE n = 1 -> b[i]
                     [] n = 2 -> (b[i] - 192) * 64 + (b[i + 1] - 128)
                     [] n = 3 -> (b[i] - 224) * 4096 + (b[i + 1] - 128) * 64
                                     + (b[i + 2] - 128)
                     [] n = 4 -> (b[i] - 240) * 262144 + (b[i + 1] - 128) * 4096
                                     + (b[i + 2] - 128) * 64 + (b[i + 3] - 128)
                     [] OTHER -> 0
         IN  IF ~wellformed THEN [ok |-> FALSE, text |-> << >>]
             ELSE LET rest == DecodeFrom(b, i + n)
                  IN  IF rest.ok
                      THEN [ok |-> TRUE, text |-> <<cp>> \o rest.text]
                      ELSE rest

\* byte_buffer.decode('utf-8')
decode(b) == DecodeFrom(b, 1)

\* Variant: the buffer is given up after two bytes.
buffer_too_large_at_two(b) == Len(b) > 2

\* `if len(byte_buffer) > 4`
buffer_too_large(b) == Len(b) > 4

\* line, line_buffer = line_buffer.split('\n', 1), repeated while a newline
\* is left: what remains, and how many lines were taken.
RECURSIVE SplitLines(_, _)
SplitLines(text, count) ==
    LET breaks == { k \in 1..Len(text) : text[k] = 10 }
    IN  IF breaks = {} THEN [rest |-> text, count |-> count]
        ELSE LET k == CHOOSE j \in breaks : \A m \in breaks : j <= m
             IN  SplitLines(SubSeq(text, k + 1, Len(text)), count + 1)

\* The bytes the subprocess writes to stdout.
StdoutBytes == Flatten(dec_units)

\* One round of the loop with a byte read: lines 135-256.
DecodeByte ==
    LET stdout == StdoutBytes
        buffer == Append(byte_buffer, stdout[dec_pos + 1])
        decoded == decode(buffer)
        split == SplitLines(line_buffer \o decoded.text, line_count)
    IN  /\ dec_pc = "reading"
        /\ dec_pos < Len(stdout)
        /\ dec_pos' = dec_pos + 1
        /\ IF decoded.ok
           THEN /\ appended' = appended \o decoded.text
                /\ byte_buffer' = << >>
                /\ line_buffer' = split.rest
                /\ line_count' = split.count
                /\ UNCHANGED discarded
           ELSE /\ byte_buffer' = IF buffer_too_large(buffer) THEN << >> ELSE buffer
                /\ discarded' = (discarded \/ buffer_too_large(buffer))
                /\ UNCHANGED <<appended, line_buffer, line_count>>
        /\ UNCHANGED <<dec_units, dec_pc, decOthers>>

\* read(1) returns b"": lines 136-145.
DecodeEOF ==
    LET decoded == decode(byte_buffer)
    IN  /\ dec_pc = "reading"
        /\ dec_pos = Len(StdoutBytes)
        /\ dec_pc' = "done"
        /\ IF byte_buffer # << >> /\ decoded.ok
           THEN /\ appended' = appended \o decoded.text
                /\ line_buffer' = line_buffer \o decoded.text
           ELSE UNCHANGED <<appended, line_buffer>>
        /\ UNCHANGED <<dec_units, dec_pos, byte_buffer, line_count, discarded,
                       decOthers>>

DecodeIdle ==
    /\ dec_units = << >>
    /\ dec_pc = "idle"
    /\ dec_pos = 0
    /\ byte_buffer = << >>
    /\ line_buffer = << >>
    /\ appended = << >>
    /\ line_count = 0
    /\ discarded = FALSE

(***************************************************************************)
(*            ClaudeProcess._format_todo_write_display                     *)
(***************************************************************************)

MaxTodos == 2

\* The values of a todo's "status": the three known ones, another string,
\* and the key missing.
TodoStatuses == {"pending", "in_progress", "completed", "cancelled", Absent}

\* The values of "content" and of "activeForm" (Absent: the key is missing).
TodoContents == {"", "Fix bug"}
TodoActiveForms == {Absent, "", "  ", "Fixing bug"}

TodoItems ==
    [status : TodoStatuses, content : TodoContents, activeForm : TodoActiveForms]

\* The strings of the display, written in ASCII: the labels stand for
\* "更新任务列表", "完成任务列表" and "创建任务列表", the emoji for U+23F3,
\* U+1F504, U+2705 and U+1F4DD.
UpdateLabel == "update task list"
CompleteLabel == "complete task list"
CreateLabel == "create task list"

\* The dict of lines 418-422 with its default.
status_emoji(status) ==
    CASE status = "pending" -> "U+23F3"
      [] status = "in_progress" -> "U+1F504"
      [] status = "completed" -> "U+2705"
      [] OTHER -> "U+1F4DD"

\* How many todos have the status; a missing key counts for none.
status_count(todos, status) ==
    Cardinality({ k \in 1..Len(todos) : todos[k].status = status })

\* Variant: activeForm is used whenever it is not the empty string.
display_content_unstripped(todo) ==
    IF todo.activeForm # Absent /\ todo.activeForm # ""
    THEN todo.activeForm ELSE todo.content

\* Line 425: active_form if it is non-empty and not blank, else content.
display_content(todo) ==
    IF todo.activeForm # Absent /\ todo.activeForm # ""
           /\ ~IsBlank(todo.activeForm)
    THEN todo.activeForm ELSE todo.content

\* One line of the task summary, line 427; status defaults to "pending".
todo_line(todo) ==
    LET status == IF todo.status = Absent THEN "pending" ELSE todo.status
    IN  "  " \o status_emoji(status) \o " " \o display_content(todo) \o "\n"

\* _format_todo_write_display for a non-empty list: the action label, the
\* counts of the header and the item lines; for an empty one the fixed text.
format_todo_write_display(todos) ==
    IF todos = << >>
    THEN [action |-> "create empty task list", total |-> 0, completed |-> 0,
          in_progress |-> 0, lines |-> << >>]
    ELSE LET in_progress_count == status_count(todos, "in_progress")
             completed_count == status_count(todos, "completed")
         IN  [action |-> IF in_progress_count > 0 THEN UpdateLabel
                         ELSE IF completed_count = Len(todos) THEN CompleteLabel
                         ELSE CreateLabel,
              total |-> Len(todos),
              completed |-> completed_count,
              in_progress |-> in_progress_count,
              lines |-> [k \in 1..Len(todos) |-> todo_line(todos[k])]]

NoDisplay == [action |-> "none"]

\* A tool_use of TodoWrite is rendered (send_message, lines 214-216).
FormatTodoWrite ==
    /\ todo_display = NoDisplay
    /\ todo_display' = format_todo_write_display(todo_input)
    /\ UNCHANGED <<todo_input, todoOthers>>

TodoIdle ==
    /\ todo_input = << >>
    /\ todo_display = NoDisplay

(***************************************************************************)
(*      SessionManager called directly, by callers that run concurrently   *)
(***************************************************************************)

MaxMgrTime == 2
MaxApiCalls == 3

\* The session ids the callers use, and the tasks that call.
MgrIds == {"s1", "s2", "s3"}

\* The id the callers use when they call the manager directly.
CallIds == {"s1"}
Callers == {1, 2}

\* SessionUpdateRequest: each field is optional (the empty set: None).
UpdateRequests ==
    { [claude_session_id |-> "conv-1", is_active |-> {}, metadata |-> {}],
      [claude_session_id |-> Absent, is_active |-> {FALSE}, metadata |-> {}],
      [claude_session_id |-> Absent, is_active |-> {},
       metadata |-> {Dict({"tag"})}] }

NoRequest == [claude_session_id |-> Absent, is_active |-> {}, metadata |-> {}]

\* The claude_session_id argument of add_message_to_session.
AddMessageRequests ==
    { [NoRequest EXCEPT !.claude_session_id = cid] : cid \in {Absent, "conv-1"} }

\* The calls considered: the method and its argument.
ApiCalls ==
    [op : {"create", "remove", "goc"}, request : {NoRequest}]
        \cup [op : {"update"}, request : UpdateRequests]
        \cup [op : {"addmsg"}, request : AddMessageRequests]

\* What there is of a session id: the cached object and its value, the
\* durable row, the number of message rows and the creation counter.
Snapshot(id, objs1, sessions1, db1, msgs1, total1) ==
    [obj |-> sessions1[id],
     session |-> IF sessions1[id] # 0 THEN objs1[sessions1[id]] ELSE NoRow,
     row |-> db1[id], messages |-> msgs1[id], total |-> total1]

IdleCall == [pc |-> "idle"]

NoMutation == [called |-> FALSE]

\* Caller c changes a cached session, or the cache entry of its id, while
\* `holder` holds the lock of the id (0: nobody); `waiting` tells whether a
\* call that holds the lock is suspended between its own changes.
Mutation(c, id, what, holder) ==
    [called |-> TRUE, caller |-> c, id |-> id, what |-> what, holder |-> holder]

InFlight(c) == m_calls[c].pc # "idle"

\* A call of caller c begins: it is alone if no other call is under way, and
\* the calls under way are no longer alone.
Entered(c, op, id, request) ==
    [d \in Callers |->
        IF d = c
        THEN [pc |-> "start", op |-> op, id |-> id, request |-> request,
              pre |-> Snapshot(id, m_objs, m_sessions, m_db, m_msgs, m_total),
              at |-> m_now, obj |-> 0,
              alone |-> \A e \in Callers \ {c} : ~InFlight(e),
              failed |-> FALSE]
        ELSE IF InFlight(d) THEN [m_calls[d] EXCEPT !.alone = FALSE]
        ELSE m_calls[d]]

\* The call of c returns or raises: `result` is "session", "true", "false",
\* "SessionError" or "TypeError"; the values the step leaves are passed in.
Returned(c, calls, result, objs1, sessions1, db1, msgs1, total1) ==
    LET call == calls[c]
    IN  /\ m_calls' = [calls EXCEPT ![c] = IdleCall]
        /\ m_done' =
               [op |-> call.op, caller |-> c, id |-> call.id,
                request |-> call.request, result |-> result, alone |-> call.alone,
                failed |-> call.failed,
                at |-> call.at, pre |-> call.pre,
                post |-> Snapshot(call.id, objs1, sessions1, db1, msgs1, total1),
                returned |-> IF result = "session" THEN call.obj ELSE 0]
        /\ m_hist' =
               IF call.op = "create" /\ result = "session"
               THEN [m_hist EXCEPT !.returned = @ + 1]
               ELSE IF call.op = "create"
               THEN [m_hist EXCEPT !.raised = @ + 1]
               ELSE m_hist

\* The call of c goes on to its next suspension point.
Suspended(c, calls, pc, obj) ==
    /\ m_calls' = [calls EXCEPT ![c].pc = pc, ![c].obj = obj]
    /\ UNCHANGED <<m_done, m_hist>>

mgrFixed == <<m_now, m_started, m_sweep, m_swept, m_store, mgrOthers>>

\* ---- create_session (session_manager.py 64-98)

\* Variant: the id is never found to exist.
already_exists_never(id) == FALSE

\* Lines 67-70: the id is cached and the cached session is active.
already_exists(id) == m_sessions[id] # 0 /\ m_objs[m_sessions[id]].is_active

\* The body inside the create lock up to `await self.db_manager.create_session`.
MgrCreateLocked(c, calls) ==
    LET id == calls[c].id
        n == Len(m_objs) + 1
    IN  IF already_exists(id)
        THEN /\ Returned(c, calls, "SessionError", m_objs, m_sessions, m_db,
                         m_msgs, m_total)
             /\ UNCHANGED <<m_objs, m_sessions, m_db, m_msgs, m_total, m_locks,
                            m_mutation>>
        ELSE /\ m_objs' = Append(m_objs, NewSession(id, m_now))
             /\ m_sessions' = [m_sessions EXCEPT ![id] = n]
             /\ m_locks' = [m_locks EXCEPT !["create"] = c]
             /\ m_mutation' = Mutation(c, id, "create", m_locks[id])
             /\ Suspended(c, calls, "cs_db", n)
             /\ UNCHANGED <<m_db, m_msgs, m_total>>

\* create_session is entered: while another call holds the create lock it
\* waits.
MgrCreateEnter(c, calls) ==
    IF m_locks["create"] # 0
    THEN /\ Suspended(c, calls, "cs_lock", 0)
         /\ UNCHANGED <<m_objs, m_sessions, m_db, m_msgs, m_total, m_locks,
                        m_mutation>>
    ELSE MgrCreateLocked(c, calls)

\* ---- add_message_to_session after get_or_create_session (lines 230-245)

\* The conversation id is set on the session; the durable update of line 234
\* is a coroutine that is never awaited, so nothing is written; then
\* update_activity, and the awaited update of last_activity begins.
MgrAddMessage(c, calls, o, objs1) ==
    LET cid == calls[c].request.claude_session_id
        s1 == IF cid # Absent THEN [objs1[o] EXCEPT !.claude_session_id = cid]
              ELSE objs1[o]
    IN  /\ m_objs' = [objs1 EXCEPT ![o] = update_activity(s1, m_now)]
        /\ m_mutation' = Mutation(c, calls[c].id, "add_message", m_locks[calls[c].id])
        /\ Suspended(c, calls, "am_upd", o)

\* get_or_create_session returns the session o to its caller.
MgrGocReturns(c, calls, o, objs1, sessions1, db1, total1) ==
    IF calls[c].op = "addmsg"
    THEN MgrAddMessage(c, calls, o, objs1)
    ELSE /\ Returned(c, [calls EXCEPT ![c].obj = o], "session", objs1, sessions1,
                     db1, m_msgs, total1)
         /\ m_objs' = objs1
         /\ m_mutation' = IF objs1 # m_objs
                          THEN Mutation(c, calls[c].id, "get_or_create",
                                        m_locks[calls[c].id])
                          ELSE m_mutation

\* ---- remove_session (lines 149-170)

\* From `self.sessions.pop` to `await self.db_manager.delete_session`.
MgrPop(c, calls, pc, holder) ==
    LET id == calls[c].id
        o == m_sessions[id]
    IN  /\ m_sessions' = [m_sessions EXCEPT ![id] = 0]
        /\ m_objs' = IF o # 0 THEN [m_objs EXCEPT ![o].is_active = FALSE]
                     ELSE m_objs
        /\ m_mutation' = IF o # 0 THEN Mutation(c, id, "remove", holder)
                         ELSE m_mutation
        /\ Suspended(c, calls, pc, calls[c].obj)

MgrRemoveEnter(c, calls) ==
    IF m_sessions[calls[c].id] = 0
    THEN \* line 153: the durable row is read
         /\ Suspended(c, calls, "rm_get", 0)
         /\ UNCHANGED <<m_objs, m_sessions, m_db, m_msgs, m_total, m_locks,
                        m_mutation>>
    ELSE /\ MgrPop(c, calls, "rm_del", m_locks[calls[c].id])
         /\ UNCHANGED <<m_db, m_msgs, m_total, m_locks>>

\* ---- update_session (lines 118-147)

\* What update_session writes to the durable row (lines 130-138).
update_data(request, session) ==
    (IF request.claude_session_id # Absent
     THEN ("claude_session_id" :> request.claude_session_id) ELSE << >>)
    @@ (IF request.is_active # {}
        THEN ("is_active" :> (CHOOSE b \in request.is_active : TRUE)) ELSE << >>)
    @@ (IF request.metadata # {}
        THEN ("metadata" :> json_dumps(CHOOSE m \in request.metadata : TRUE))
        ELSE << >>)
    @@ ("last_activity" :> session.last_activity)

\* SessionUpdateRequest.apply_to_session
apply_to_session(request, session) ==
    LET s1 == IF request.is_active # {}
              THEN [session EXCEPT !.is_active = CHOOSE b \in request.is_active : TRUE]
              ELSE session
        s2 == IF request.claude_session_id # Absent
              THEN [s1 EXCEPT !.claude_session_id = request.claude_session_id]
              ELSE s1
    IN  IF request.metadata # {}
        THEN [s2 EXCEPT !.metadata =
                 Dict(@.dict \cup (CHOOSE m \in request.metadata : TRUE).dict)]
        ELSE s2

\* The body inside the session's lock, to the first durable call.
MgrUpdateLocked(c, calls) ==
    LET id == calls[c].id
        o == m_sessions[id]
    IN  IF o = 0
        THEN \* get_session returns None: SessionError
             /\ Returned(c, calls, "SessionError", m_objs, m_sessions, m_db,
                         m_msgs, m_total)
             /\ UNCHANGED <<m_objs, m_sessions, m_db, m_msgs, m_total, m_locks,
                            m_mutation>>
        ELSE IF is_expired(m_objs[o], m_now)
        THEN \* get_session removes the expired session
             /\ MgrPop(c, calls, "up_rm", c)
             /\ m_locks' = [m_locks EXCEPT ![id] = c]
             /\ UNCHANGED <<m_db, m_msgs, m_total>>
        ELSE /\ m_objs' = [m_objs EXCEPT ![o] =
                    update_activity(apply_to_session(calls[c].request, @), m_now)]
             /\ m_locks' = [m_locks EXCEPT ![id] = c]
             /\ m_mutation' = Mutation(c, id, "update", c)
             /\ Suspended(c, calls, "up_db", o)
             /\ UNCHANGED <<m_sessions, m_db, m_msgs, m_total>>

MgrUpdateEnter(c, calls) ==
    IF m_locks[calls[c].id] # 0
    THEN /\ Suspended(c, calls, "up_lock", 0)
         /\ UNCHANGED <<m_objs, m_sessions, m_db, m_msgs, m_total, m_locks,
                        m_mutation>>
    ELSE MgrUpdateLocked(c, calls)

\* ---- get_or_create_session (lines 172-219)

MgrGocEnter(c, calls) ==
    LET id == calls[c].id
        o == m_sessions[id]
    IN  IF o # 0 /\ ~is_expired(m_objs[o], m_now)
        THEN \* the cached session is used, line 186
             /\ MgrGocReturns(c, calls, o,
                              [m_objs EXCEPT ![o] = update_activity(@, m_now)],
                              m_sessions, m_db, m_total)
             /\ UNCHANGED <<m_sessions, m_db, m_msgs, m_total, m_locks>>
        ELSE IF o # 0
        THEN \* get_session removes the expired session
             /\ MgrPop(c, calls, "goc_rm", m_locks[id])
             /\ UNCHANGED <<m_db, m_msgs, m_total, m_locks>>
        ELSE \* line 191: the durable row is read
             /\ Suspended(c, calls, "goc_get", 0)
             /\ UNCHANGED <<m_objs, m_sessions, m_db, m_msgs, m_total, m_locks,
                            m_mutation>>

\* ---- The steps of the callers

\* Every DatabaseManager method catches the exceptions of its statements and
\* answers False or None: a write that fails leaves the table as it was.
written(db1) == IF m_store.up THEN db1 ELSE m_db

\* DatabaseManager.get_session: None when there is no row or the query fails.
fetched(session_id) ==
    IF m_store.up THEN db_get_session(m_db, session_id) ELSE NoRow

\* The durable-store call of caller c is executed: it is noted on the call
\* if it failed.
Served(c) == [m_calls EXCEPT ![c].failed = @ \/ ~m_store.up]

\* The pcs at which a call waits for a durable-store call it awaits.
DbPcs == {"cs_db", "up_rm", "up_db", "rm_get", "rm_del", "goc_rm", "goc_get",
          "am_upd", "am_msg"}

\* Every DatabaseManager method runs under the one asyncio.Lock of the
\* manager, which serves its waiters first come, first served: the call of
\* caller c, if it now awaits a durable-store call, joins the queue.
DbQueue(c, queue) ==
    m_dbq' = IF m_calls'[c].pc \in DbPcs THEN Append(queue, c) ELSE queue

\* The durable-store call of task c is the one that is served.
DbServes(c) == m_dbq # << >> /\ Head(m_dbq) = c

\* A call is made.
MgrCall(c, id, call) ==
    LET calls == Entered(c, call.op, id, call.request)
    IN  /\ m_started.count < MaxApiCalls
        /\ ~InFlight(c)
        /\ \A d \in Callers : d < c => InFlight(d)
        /\ m_started' = [count |-> m_started.count + 1,
                          ops |-> m_started.ops \cup {call.op}]
        /\ CASE call.op = "create" -> MgrCreateEnter(c, calls)
             [] call.op = "update" -> MgrUpdateEnter(c, calls)
             [] call.op = "remove" -> MgrRemoveEnter(c, calls)
             [] OTHER -> MgrGocEnter(c, calls)
        /\ DbQueue(c, m_dbq)
        /\ UNCHANGED <<m_now, m_sweep, m_swept, m_store, mgrOthers>>

\* create_session gets the create lock it waited for.
MgrCreateWait(c) ==
    /\ m_calls[c].pc = "cs_lock"
    /\ m_locks["create"] = 0
    /\ MgrCreateLocked(c, m_calls)
    /\ UNCHANGED mgrFixed
    /\ DbQueue(c, m_dbq)

\* create_session, lines 88-98: the row is inserted, the counter incremented,
\* the lock released and the session returned.
MgrCreateDb(c) ==
    LET call == m_calls[c]
        db1 == written(db_create_session(m_db, m_objs[call.obj]))
    IN  /\ call.pc = "cs_db"
        /\ DbServes(c)
        /\ m_db' = db1
        /\ m_total' = m_total + 1
        /\ m_locks' = [m_locks EXCEPT !["create"] = 0]
        /\ IF call.op = "create"
           THEN /\ Returned(c, Served(c), "session", m_objs, m_sessions, db1, m_msgs,
                            m_total + 1)
                /\ UNCHANGED <<m_objs, m_mutation>>
           ELSE MgrGocReturns(c, Served(c), call.obj, m_objs, m_sessions, db1,
                              m_total + 1)
        /\ UNCHANGED <<m_sessions, m_msgs, mgrFixed>>
        /\ DbQueue(c, Tail(m_dbq))

\* update_session gets the session lock it waited for.
MgrUpdateWait(c) ==
    /\ m_calls[c].pc = "up_lock"
    /\ m_locks[m_calls[c].id] = 0
    /\ MgrUpdateLocked(c, m_calls)
    /\ UNCHANGED mgrFixed
    /\ DbQueue(c, m_dbq)

\* update_session after get_session removed the expired session: the row is
\* deleted and SessionError raised (lines 113-114, 122-123).
MgrUpdateRemoved(c) ==
    LET call == m_calls[c]
        db1 == written(db_delete_session(m_db, call.id))
    IN  /\ call.pc = "up_rm"
        /\ DbServes(c)
        /\ m_db' = db1
        /\ m_locks' = [m_locks EXCEPT ![call.id] = 0]
        /\ Returned(c, Served(c), "SessionError", m_objs, m_sessions, db1, m_msgs,
                    m_total)
        /\ UNCHANGED <<m_objs, m_sessions, m_msgs, m_total, m_mutation, mgrFixed>>
        /\ DbQueue(c, Tail(m_dbq))

\* update_session, lines 140-147: the row is updated and the session returned.
MgrUpdateDb(c) ==
    LET call == m_calls[c]
        db1 == written(db_update_session(m_db, call.id,
                                 update_data(call.request, m_objs[call.obj])))
    IN  /\ call.pc = "up_db"
        /\ DbServes(c)
        /\ m_db' = db1
        /\ m_locks' = [m_locks EXCEPT ![call.id] = 0]
        /\ Returned(c, Served(c), "session", m_objs, m_sessions, db1, m_msgs, m_total)
        /\ UNCHANGED <<m_objs, m_sessions, m_msgs, m_total, m_mutation, mgrFixed>>
        /\ DbQueue(c, Tail(m_dbq))

\* remove_session has the durable row it asked for (lines 153-159).
MgrRemoveGet(c) ==
    LET call == m_calls[c]
    IN  /\ call.pc = "rm_get"
        /\ DbServes(c)
        /\ IF fetched(call.id) = NoRow
           THEN /\ Returned(c, Served(c), "false", m_objs, m_sessions, m_db, m_msgs,
                            m_total)
                /\ UNCHANGED <<m_objs, m_sessions, m_mutation>>
           ELSE MgrPop(c, Served(c), "rm_del", m_locks[call.id])
        /\ UNCHANGED <<m_db, m_msgs, m_total, m_locks, mgrFixed>>
        /\ DbQueue(c, Tail(m_dbq))

\* remove_session, lines 163-170: the row is deleted, True returned.
MgrRemoveDel(c) ==
    LET call == m_calls[c]
        db1 == written(db_delete_session(m_db, call.id))
    IN  /\ call.pc = "rm_del"
        /\ DbServes(c)
        /\ m_db' = db1
        /\ Returned(c, Served(c), "true", m_objs, m_sessions, db1, m_msgs, m_total)
        /\ UNCHANGED <<m_objs, m_sessions, m_msgs, m_total, m_locks, m_mutation,
                       mgrFixed>>
        /\ DbQueue(c, Tail(m_dbq))

\* get_or_create_session after get_session removed the expired session: the
\* row is deleted, and the durable row is asked for (lines 113-114, 191).
MgrGocRemoved(c) ==
    /\ m_calls[c].pc = "goc_rm"
    /\ DbServes(c)
    /\ m_db' = written(db_delete_session(m_db, m_calls[c].id))
    /\ Suspended(c, Served(c), "goc_get", 0)
    /\ UNCHANGED <<m_objs, m_sessions, m_msgs, m_total, m_locks, m_mutation,
                   mgrFixed>>
    /\ DbQueue(c, Tail(m_dbq))

\* get_or_create_session has the durable row (lines 192-219): a row that is
\* found cannot be loaded, datetime.fromisoformat raises TypeError on the
\* datetime that DatabaseManager.get_session returns; without a row
\* create_session is called.
MgrGocGet(c) ==
    LET call == m_calls[c]
    IN  /\ call.pc = "goc_get"
        /\ DbServes(c)
        /\ IF fetched(call.id) # NoRow
           THEN /\ Returned(c, Served(c), "TypeError", m_objs, m_sessions, m_db,
                            m_msgs, m_total)
                /\ UNCHANGED <<m_objs, m_sessions, m_db, m_msgs, m_total, m_locks,
                               m_mutation>>
           ELSE MgrCreateEnter(c, Served(c))
        /\ UNCHANGED mgrFixed
        /\ DbQueue(c, Tail(m_dbq))

\* add_message_to_session, lines 243-245: last_activity is written to the row.
MgrAmUpdate(c) ==
    LET call == m_calls[c]
    IN  /\ call.pc = "am_upd"
        /\ DbServes(c)
        /\ m_db' = written(db_update_session(m_db, call.id,
                       [last_activity |-> m_objs[call.obj].last_activity]))
        /\ Suspended(c, Served(c), "am_msg", call.obj)
        /\ UNCHANGED <<m_objs, m_sessions, m_msgs, m_total, m_locks, m_mutation,
                       mgrFixed>>
        /\ DbQueue(c, Tail(m_dbq))

\* add_message_to_session, lines 247-261: the message row is inserted and the
\* session returned.
MgrAmMessage(c) ==
    LET call == m_calls[c]
        msgs1 == IF m_store.up THEN [m_msgs EXCEPT ![call.id] = @ + 1] ELSE m_msgs
    IN  /\ call.pc = "am_msg"
        /\ DbServes(c)
        /\ m_msgs' = msgs1
        /\ Returned(c, Served(c), "session", m_objs, m_sessions, m_db, msgs1, m_total)
        /\ UNCHANGED <<m_objs, m_sessions, m_db, m_total, m_locks, m_mutation,
                       mgrFixed>>
        /\ DbQueue(c, Tail(m_dbq))

(***************************************************************************)
(*          The cleanup task of the SessionManager, beside its callers      *)
(***************************************************************************)

MaxSweepCalls == 2
MaxSweepErrors == 1

\* The cleanup task in the queue of the durable store.
SweepTask == 0

MgrIdOf(o) == m_objs[o].session_id

MgrCached(o) == m_sessions[MgrIdOf(o)] = o

MgrExpired(o) == is_expired(m_objs[o], m_now)

MgrExpiredCached(o) == MgrCached(o) /\ MgrExpired(o)

\* The Session objects in the order in which they were created.
MgrObjs == [o \in 1..Len(m_objs) |-> o]

\* list(self.sessions.values()): a dict keeps the order of insertion, and
\* every insertion is that of a new object.
mgr_sessions_values == SelectSeq(MgrObjs, MgrCached)

\* Variant: no session is ever found expired.
mgr_get_expired_none == SubSeq(MgrObjs, 1, 0)

\* SessionManager.get_expired_sessions (lines 274-281)
mgr_get_expired_sessions == SelectSeq(MgrObjs, MgrExpiredCached)

Range(seq) == { seq[k] : k \in 1..Len(seq) }

\* The pass is over: _cleanup_loop counts it and sleeps again.
SweepSleeps(p, queue, ended) ==
    /\ m_sweep' = [pc |-> "sleep", ended |-> ended, listed |-> p.listed,
                   errors |-> IF ended = "error" THEN p.errors + 1 ELSE p.errors]
    /\ m_dbq' = queue
    /\ UNCHANGED <<m_objs, m_sessions, m_swept, m_mutation>>

\* remove_session(id), lines 163-170 on: whatever is cached under the id is
\* dropped and marked inactive, and the row's deletion is awaited.
SweepPops(p, id, queue) ==
    LET o == m_sessions[id]
    IN  /\ m_sessions' = [m_sessions EXCEPT ![id] = 0]
        /\ m_objs' = IF o # 0 THEN [m_objs EXCEPT ![o].is_active = FALSE]
                     ELSE m_objs
        /\ m_swept' = IF o # 0
                      THEN [obj |-> o, expired |-> MgrExpired(o),
                            listed |-> o \in p.listed]
                      ELSE m_swept
        /\ m_mutation' = IF o # 0 THEN Mutation(SweepTask, id, "remove", m_locks[id])
                         ELSE m_mutation
        /\ m_sweep' = [pc |-> "rm_del", id |-> id, phase |-> p.phase,
                       todo |-> Tail(p.todo), cleaned |-> p.cleaned,
                       listed |-> p.listed, errors |-> p.errors]
        /\ m_dbq' = Append(queue, SweepTask)

\* remove_session(id) for the session at the head of the list, to the
\* durable-store call it awaits first (lines 151-163).
SweepRemoves(p, queue) ==
    LET id == MgrIdOf(Head(p.todo))
    IN  IF m_sessions[id] # 0
        THEN SweepPops(p, id, queue)
        ELSE /\ m_sweep' = [pc |-> "rm_get", id |-> id, phase |-> p.phase,
                            todo |-> p.todo, cleaned |-> p.cleaned,
                            listed |-> p.listed, errors |-> p.errors]
             /\ m_dbq' = Append(queue, SweepTask)
             /\ UNCHANGED <<m_objs, m_sessions, m_swept, m_mutation>>

\* get_active_sessions (lines 263-272) over what is left of its list: the
\* sessions that are not expired are passed over, the first expired one is
\* removed by its id.
SweepActives(p, queue) ==
    IF \E k \in 1..Len(p.todo) : MgrExpired(p.todo[k])
    THEN LET k == CHOOSE j \in 1..Len(p.todo) :
                      /\ MgrExpired(p.todo[j])
                      /\ \A m \in 1..(j - 1) : ~MgrExpired(p.todo[m])
         IN  SweepRemoves([p EXCEPT !.phase = "active",
                                    !.todo = SubSeq(p.todo, k, Len(p.todo))],
                          queue)
    ELSE SweepSleeps(p, queue, "done")

\* cleanup_expired_sessions (lines 283-299) goes on after a remove_session
\* call has returned.
SweepContinues(p, queue) ==
    IF p.phase = "expired"
    THEN IF p.todo # << >>
         THEN SweepRemoves(p, queue)
         ELSE IF p.cleaned > 0
              THEN SweepActives([p EXCEPT !.todo = mgr_sessions_values], queue)
              ELSE SweepSleeps(p, queue, "done")
    ELSE SweepActives(p, queue)

sweepLeaves == <<m_now, m_msgs, m_locks, m_total, m_calls, m_started, m_done,
                 m_store,
                 m_hist, mgrOthers>>

\* _cleanup_loop wakes up (lines 316-320): the expired sessions are listed
\* and the removal of the first begins.
SweepWakes ==
    /\ m_sweep.pc = "sleep"
    /\ SweepContinues([phase |-> "expired", todo |-> mgr_get_expired_sessions,
                       cleaned |-> 0, errors |-> m_sweep.errors,
                       listed |-> Range(mgr_get_expired_sessions)],
                      m_dbq)
    /\ UNCHANGED <<m_db, sweepLeaves>>

\* What the durable-store call the cleanup task awaits does to the rows.
SweepDbEffect ==
    IF m_sweep.pc = "rm_del" THEN db_delete_session(m_db, m_sweep.id) ELSE m_db

\* The pass as it stands when the awaited durable-store call has returned.
SweepPass ==
    [phase |-> m_sweep.phase, todo |-> m_sweep.todo, listed |-> m_sweep.listed,
     errors |-> m_sweep.errors,
     cleaned |-> IF m_sweep.pc = "rm_del" /\ m_sweep.phase = "expired"
                 THEN m_sweep.cleaned + 1 ELSE m_sweep.cleaned]

\* The durable-store call of the cleanup task is served, and the pass goes on
\* to its next one or to its end.
SweepDb ==
    /\ m_sweep.pc \in {"rm_del", "rm_get"}
    /\ DbServes(SweepTask)
    /\ m_db' = SweepDbEffect
    /\ IF m_sweep.pc = "rm_del"
       THEN \* remove_session returns True
            SweepContinues(SweepPass, Tail(m_dbq))
       ELSE IF db_get_session(m_db, m_sweep.id) = NoRow
       THEN \* remove_session returns False (lines 153-155)
            SweepContinues([SweepPass EXCEPT !.todo = Tail(@)], Tail(m_dbq))
       ELSE SweepPops(SweepPass, m_sweep.id, Tail(m_dbq))
    /\ UNCHANGED sweepLeaves

\* An exception escapes from the pass after a durable-store call returned:
\* _cleanup_loop logs it and sleeps again (lines 323-324).
SweepError ==
    /\ m_sweep.pc \in {"rm_del", "rm_get"}
    /\ m_sweep.errors < MaxSweepErrors
    /\ DbServes(SweepTask)
    /\ m_db' = SweepDbEffect
    /\ SweepSleeps(SweepPass, Tail(m_dbq), "error")
    /\ UNCHANGED sweepLeaves

\* A request looks a session up.
SweepCall(c, id) ==
    /\ m_started.count < MaxSweepCalls
    /\ MgrCall(c, id, [op |-> "goc", request |-> NoRequest])

\* ---- Failures of the durable store

MaxFailCalls == 2
MaxOutages == 1

\* The calls considered while the store may fail.
FailCalls ==
    [op : {"create", "goc"}, request : {NoRequest}]
        \cup [op : {"update", "addmsg"},
              request : {[NoRequest EXCEPT !.claude_session_id = "conv-1"]}]

FailCall(c, id, call) ==
    /\ m_started.count < MaxFailCalls
    /\ MgrCall(c, id, call)

failLeaves == <<m_now, m_objs, m_sessions, m_db, m_msgs, m_locks, m_total, m_calls,
                m_started, m_done, m_mutation, m_dbq, m_sweep, m_swept, mgrOthers>>

\* The statements of the store begin to raise.
StoreFails ==
    /\ m_store.up
    /\ m_store.outages < MaxOutages
    /\ m_store' = [up |-> FALSE, outages |-> m_store.outages + 1]
    /\ UNCHANGED <<m_hist, failLeaves>>

\* The statements of the store work again.
StoreRecovers ==
    /\ ~m_store.up
    /\ m_store' = [m_store EXCEPT !.up = TRUE]
    /\ UNCHANGED <<m_hist, failLeaves>>

\* Time passes.
MgrTick ==
    /\ m_now < MaxMgrTime
    /\ m_now' = m_now + 1
    /\ UNCHANGED <<m_objs, m_sessions, m_db, m_msgs, m_locks, m_total, m_calls,
                   m_done, m_hist, m_mutation, m_started, m_dbq, m_sweep,
                   m_swept, m_store, mgrOthers>>

NoDone == [op |-> "none"]

NoRows == [id \in MgrIds |-> NoRow]

IdleMgrSweep == [pc |-> "sleep", ended |-> "none", listed |-> {}, errors |-> 0]

NoSwept == [obj |-> 0]

MgrIdle ==
    /\ m_now = 0
    /\ m_objs = << >>
    /\ m_sessions = [id \in MgrIds |-> 0]
    /\ m_db = NoRows
    /\ m_msgs = [id \in MgrIds |-> 0]
    /\ m_locks = [k \in MgrIds \cup {"create"} |-> 0]
    /\ m_total = 0
    /\ m_calls = [c \in Callers |-> IdleCall]
    /\ m_done = NoDone
    /\ m_hist = [returned |-> 0, raised |-> 0]
    /\ m_mutation = NoMutation
    /\ m_started = [count |-> 0, ops |-> {}]
    /\ m_dbq = << >>
    /\ m_sweep = IdleMgrSweep
    /\ m_swept = NoSwept
    /\ m_store = [up |-> TRUE, outages |-> 0]

(***************************************************************************)
(*          ClaudeProcess.send_message AND THE TASK THAT CONSUMES IT       *)
(*                                                                         *)
(* send_message is an async generator.  It stands either at one of its     *)
(* awaits or at its yield, where the consumer holds the item and runs its  *)
(* own code (the Streaming Translator sends a frame to the client).  A     *)
(* cancellation of the consumer's task is raised at the await the task is  *)
(* suspended in: inside the generator when the task waits for the next     *)
(* item, in the consumer's own code otherwise.                             *)
(***************************************************************************)

\* Bound of the model: the output items one call yields.
MaxItems == 5

NoCancel == [at |-> "none", running |-> FALSE, items |-> 0]

\* What the subprocess can have written to its stderr when it ends: nothing,
\* "oops", U+00E9 in UTF-8, and two bytes of a message in a console code page
\* (0xD3 0xC3), which are no UTF-8.
StderrOutputs == {<< >>, <<111, 111, 112, 115>>, <<195, 169>>, <<211, 195>>}

\* "Unknown error", and the head of str(UnicodeDecodeError), "'utf-8' codec".
UnknownError == <<85, 110, 107, 110, 111, 119, 110, 32, 101, 114, 114, 111, 114>>
CodecError == <<39, 117, 116, 102, 45, 56, 39, 32, 99, 111, 100, 101, 99>>

NoneRaised == [type |-> "none"]

\* Lines 290-294: every Exception that leaves the body, the ClaudeProcessError of
\* line 280 too, is raised again as ClaudeProcessError("Error sending message
\* to Claude: " + str(e)); cause names the class of e, text is str(e) without
\* the fixed words of line 280.
Wrapped(cause, text) ==
    [type |-> "ClaudeProcessError", cause |-> cause, text |-> text]

\* Lines 268-280 for a subprocess that ended with a return code other than 0.
exit_error(stderr_output) ==
    IF stderr_output = << >>
    THEN Wrapped("ClaudeProcessError", UnknownError)
    ELSE IF decode(stderr_output).ok
         THEN Wrapped("ClaudeProcessError", decode(stderr_output).text)
         ELSE Wrapped("UnicodeDecodeError", CodecError)

\* The consumer asks for the first item: lines 99-119, up to the await of
\* asyncio.create_subprocess_exec.
SendStart ==
    /\ sm_pc = "unstarted"
    /\ sm_pc' = "spawning"
    /\ sm_consumer' = "iterating"
    /\ UNCHANGED <<sm_proc, sm_items, sm_cancel, sm_out, sm_raised, sendOthers>>

\* create_subprocess_exec returns (lines 114-133) and the loop awaits its first
\* read; or it raises, which line 291 turns into ClaudeProcessError.
Spawned(ok) ==
    /\ sm_pc = "spawning"
    /\ IF ok
       THEN /\ sm_pc' = "reading"
            /\ sm_proc' = "running"
            /\ UNCHANGED sm_consumer
       ELSE /\ sm_pc' = "raised"
            /\ sm_consumer' = "failed"
            /\ UNCHANGED sm_proc
    /\ sm_raised' = IF ok THEN sm_raised ELSE Wrapped("OSError", << >>)
    /\ UNCHANGED <<sm_items, sm_cancel, sm_out, sendOthers>>

\* The subprocess writes a line to its stdout that holds assistant text or a
\* tool call.
ProcessWrites ==
    /\ sm_proc = "running"
    /\ sm_out.written < MaxItems
    /\ sm_out' = [sm_out EXCEPT !.written = @ + 1]
    /\ UNCHANGED <<sm_pc, sm_proc, sm_consumer, sm_items, sm_cancel, sm_raised,
                   sendOthers>>

\* The subprocess ends by itself, with exit status 0 or not, having written
\* stderr_output to its stderr.
ProcessExits(ok, stderr_output) ==
    /\ sm_proc = "running"
    /\ sm_proc' = IF ok THEN "exited_ok" ELSE "exited_fail"
    /\ sm_out' = [sm_out EXCEPT !.stderr = stderr_output]
    /\ UNCHANGED <<sm_pc, sm_consumer, sm_items, sm_cancel, sm_raised,
                   sendOthers>>

\* Lines 134-231: the reads complete a line that holds assistant text or a tool
\* call, and the generator yields it to the consumer.
ReadYield ==
    /\ sm_pc = "reading"
    /\ sm_proc \in {"running", "exited_ok", "exited_fail"}
    /\ sm_items < sm_out.written
    /\ sm_pc' = "yielded"
    /\ sm_consumer' = "busy"
    /\ sm_items' = sm_items + 1
    /\ UNCHANGED <<sm_proc, sm_cancel, sm_out, sm_raised, sendOthers>>

\* The consumer asks for the next item: the generator goes on after its yield
\* to the next read.
Resume ==
    /\ sm_pc = "yielded"
    /\ sm_consumer = "busy"
    /\ sm_pc' = "reading"
    /\ sm_consumer' = "iterating"
    /\ UNCHANGED <<sm_proc, sm_items, sm_cancel, sm_out, sm_raised, sendOthers>>

\* Lines 137-145 and 265-294: read returns b"" once everything written has
\* been read and the subprocess has ended; process.wait returns, and the
\* generator ends or raises by the exit status.
ReadEOF ==
    /\ sm_pc = "reading"
    /\ sm_proc \in {"exited_ok", "exited_fail"}
    /\ sm_items = sm_out.written
    /\ sm_pc' = IF sm_proc = "exited_ok" THEN "returned" ELSE "raised"
    /\ sm_consumer' = IF sm_proc = "exited_ok" THEN "finished" ELSE "failed"
    /\ sm_raised' = IF sm_proc = "exited_ok" THEN sm_raised
                    ELSE exit_error(sm_out.stderr)
    /\ UNCHANGED <<sm_proc, sm_items, sm_cancel, sm_out, sendOthers>>

\* The consumer's task is cancelled while it waits for the next item: the
\* CancelledError is raised at the generator's await and reaches lines 283-288.
\* With a subprocess that has not ended, terminate() is called and wait() is
\* awaited; otherwise the error is raised again at once.
CancelAtAwait ==
    /\ sm_consumer = "iterating"
    /\ sm_pc \in {"spawning", "reading"}
    /\ sm_cancel = NoCancel
    /\ sm_cancel' = [at |-> "await", running |-> sm_proc = "running",
                     items |-> sm_items]
    /\ IF sm_proc = "running"
       THEN /\ sm_pc' = "terminating"
            /\ sm_proc' = "signalled"
            /\ UNCHANGED sm_consumer
       ELSE /\ sm_pc' = "cancelled"
            /\ sm_consumer' = "cancelled"
            /\ UNCHANGED sm_proc
    /\ UNCHANGED <<sm_items, sm_out, sm_raised, sendOthers>>

\* Lines 287-288: the terminated subprocess has ended, wait() returns and the
\* CancelledError is raised to the consumer.
Terminated ==
    /\ sm_pc = "terminating"
    /\ sm_proc = "signalled"
    /\ sm_proc' = "terminated"
    /\ sm_pc' = "cancelled"
    /\ sm_consumer' = "cancelled"
    /\ UNCHANGED <<sm_items, sm_cancel, sm_out, sm_raised, sendOthers>>

\* The consumer's task is cancelled while it holds an item (it awaits the
\* sending of a frame): the CancelledError is raised in the consumer and goes
\* up from there; the generator stays at its yield.
CancelAtYield ==
    /\ sm_consumer = "busy"
    /\ sm_pc = "yielded"
    /\ sm_cancel = NoCancel
    /\ sm_cancel' = [at |-> "yield", running |-> sm_proc = "running",
                     items |-> sm_items]
    /\ sm_consumer' = "cancelled"
    /\ UNCHANGED <<sm_pc, sm_proc, sm_items, sm_out, sm_raised, sendOthers>>

\* The abandoned generator is closed: GeneratorExit is raised at its yield.
\* Neither `except asyncio.CancelledError` (line 283) nor `except Exception`
\* (lines 258, 290) catches it, so nothing is done about the subprocess.
Finalize ==
    /\ sm_pc = "yielded"
    /\ sm_consumer = "cancelled"
    /\ sm_pc' = "closed"
    /\ UNCHANGED <<sm_proc, sm_consumer, sm_items, sm_cancel, sm_out, sm_raised, sendOthers>>

SendIdle ==
    /\ sm_pc = "unstarted"
    /\ sm_proc = "none"
    /\ sm_consumer = "idle"
    /\ sm_items = 0
    /\ sm_cancel = NoCancel
    /\ sm_out = [written |-> 0, stderr |-> << >>]
    /\ sm_raised = NoneRaised

(***************************************************************************)
(*          BACKEND PROCESS MANAGER, ITS METHODS CALLED CONCURRENTLY       *)
(*          (services/claude_service.py, ClaudeService)                    *)
(***************************************************************************)

MaxHandles == 3
MaxProcOps == 4

\* The conversation ids the callers pass, and the tasks that call.
ProcSids == {"conv-a", "conv-b"}
ProcCallers == {1, 2}

\* ClaudeProcess.__init__ (lines 44-51): a handle is built not running. Its
\* process_id is its position in pm_handles. stops, stop_calls and returned are
\* history: how often the body of stop ran, how often stop was called, how
\* often get_or_create_process returned the handle.
NewHandle(session_id) ==
    [session_id |-> session_id, is_running |-> FALSE,
     claude_session_id |-> Absent, stops |-> 0, stop_calls |-> 0,
     returned |-> 0]

\* Variant: every session_id read replaces the one held.
capture_latest(held, session_id) ==
    IF session_id # Absent THEN session_id ELSE held

\* send_message, lines 181-187, for one JSON object of the output: its
\* session_id (Absent: it has none) is kept if none is held yet.
capture(held, session_id) ==
    IF session_id # Absent /\ held = Absent THEN session_id ELSE held

\* Variant: stop without the test of is_running.
stop_unguarded(handles, h) ==
    [handles EXCEPT ![h].is_running = FALSE, ![h].stops = @ + 1,
                    ![h].stop_calls = @ + 1]

\* ClaudeProcess.stop (lines 434-440).
stop(handles, h) ==
    IF handles[h].is_running
    THEN [handles EXCEPT ![h].is_running = FALSE, ![h].stops = @ + 1,
                         ![h].stop_calls = @ + 1]
    ELSE [handles EXCEPT ![h].stop_calls = @ + 1]

\* The handles and the two registries of the service (lines 459-462); in
\* session_processes 0 stands for a conversation id that is not a key.
Registries(handles, active, session) ==
    [handles |-> handles, active_processes |-> active,
     session_processes |-> session]

ProcNow == Registries(pm_handles, pm_active, pm_session)

\* Variant: the stale handle leaves the index of conversation ids only.
evict_index_only(s, session_id) ==
    [s EXCEPT !.session_processes[session_id] = 0]

\* get_or_create_process, lines 485-489: the handle that no longer runs leaves
\* both registries.
evict(s, session_id) ==
    [s EXCEPT !.session_processes[session_id] = 0,
              !.active_processes = @ \ {s.session_processes[session_id]}]

\* remove_process (lines 530-549).
remove_process(s, process_id) ==
    IF process_id \in s.active_processes
    THEN LET hit == {sid \in ProcSids : s.session_processes[sid] = process_id}
             session_id_to_remove ==
                 IF hit = {} THEN Absent ELSE CHOOSE sid \in hit : TRUE
         IN  Registries(stop(s.handles, process_id),
                        s.active_processes \ {process_id},
                        [sid \in ProcSids |->
                            IF sid = session_id_to_remove
                            THEN 0 ELSE s.session_processes[sid]])
    ELSE s

\* remove_session_process (lines 551-561).
remove_session_process(s, session_id) ==
    LET process == s.session_processes[session_id]
    IN  IF process # 0
        THEN Registries(stop(s.handles, process),
                        s.active_processes \ {process},
                        [s.session_processes EXCEPT ![session_id] = 0])
        ELSE s

\* The loop of cleanup_all_processes (lines 565-566) over the keys it listed.
RECURSIVE remove_each(_, _)
remove_each(s, process_ids) ==
    IF process_ids = {}
    THEN s
    ELSE LET process_id == CHOOSE p \in process_ids : TRUE
         IN  remove_each(remove_process(s, process_id),
                         process_ids \ {process_id})

\* cleanup_all_processes (lines 563-567).
cleanup_all_processes(s) ==
    [remove_each(s, s.active_processes)
        EXCEPT !.session_processes = [sid \in ProcSids |-> 0]]

IdleProcCall == [pc |-> "idle"]

NoProcDone == [op |-> "none"]

\* What a call that ended leaves in the history.
ProcDone(op, arg, result, raised, stale, pre, post) ==
    [op |-> op, arg |-> arg, result |-> result, raised |-> raised,
     stale |-> stale, pre |-> pre, post |-> post, ever |-> pm_ever]

pmOthers == <<mainVars, sendVars, portVars, decVars, todoVars, mgrVars>>

\* A method without a suspending await runs from s to s1 in one step.
ProcRuns(op, arg, s1) ==
    /\ pm_ops < MaxProcOps
    /\ pm_ops' = pm_ops + 1
    /\ pm_handles' = s1.handles
    /\ pm_active' = s1.active_processes
    /\ pm_session' = s1.session_processes
    /\ pm_done' = ProcDone(op, arg, 0, FALSE, 0, ProcNow, s1)
    /\ UNCHANGED <<pm_calls, pm_ever, pmOthers>>

RemoveProcess(process_id) ==
    /\ process_id \in 1..MaxHandles
    /\ ProcRuns("remove_process", process_id,
                remove_process(ProcNow, process_id))

RemoveSessionProcess(session_id) ==
    /\ session_id \in ProcSids
    /\ ProcRuns("remove_session_process", session_id,
                remove_session_process(ProcNow, session_id))

CleanupAllProcesses ==
    /\ pm_ops < MaxProcOps
    /\ ProcRuns("cleanup_all_processes", 0, cleanup_all_processes(ProcNow))

\* The holder of a handle that get_or_create_process returned stops it:
\* ClaudeProcess.stop is the handle's own method and the exit of its context
\* manager (lines 434-440, 451-453).
HandleStops(h) ==
    /\ h \in pm_ever
    /\ ProcRuns("stop", h, Registries(stop(pm_handles, h), pm_active, pm_session))

\* A send_message of handle h has read and parsed one more object of the
\* backend's output (lines 176-187). Any number of send_message generators may
\* be reading for the same handle, in turn or at once; each object is one step.
OutputObject(h, session_id) ==
    /\ h \in pm_ever
    /\ ProcRuns("send_message", <<h, session_id>>,
                Registries([pm_handles EXCEPT ![h].claude_session_id =
                                                 capture(@, session_id)],
                           pm_active, pm_session))

\* get_or_create_process up to its await (lines 464-499): a running handle of
\* the conversation id is returned; else a stale one is evicted, a handle is
\* built and its start awaited.
GetOrCreateProcess(c, session_id) ==
    LET existing == IF session_id # Absent THEN pm_session[session_id] ELSE 0
        s1 == IF existing # 0 THEN evict(ProcNow, session_id) ELSE ProcNow
        h == Len(pm_handles) + 1
    IN  /\ pm_calls[c].pc = "idle"
        /\ pm_ops < MaxProcOps
        /\ pm_ops' = pm_ops + 1
        /\ IF existing # 0 /\ pm_handles[existing].is_running
           THEN /\ pm_handles' = [pm_handles EXCEPT ![existing].returned = @ + 1]
                /\ pm_done' = ProcDone("get_or_create_process", session_id,
                                       existing, FALSE, existing, ProcNow,
                                       Registries(pm_handles', pm_active,
                                                  pm_session))
                /\ UNCHANGED <<pm_active, pm_session, pm_calls>>
           ELSE /\ h <= MaxHandles
                /\ pm_handles' = Append(pm_handles, NewHandle(session_id))
                /\ pm_active' = s1.active_processes
                /\ pm_session' = s1.session_processes
                /\ pm_calls' = [pm_calls EXCEPT ![c] =
                       [pc |-> "start", session_id |-> session_id, process |-> h,
                        stale |-> existing, pre |-> ProcNow]]
                /\ UNCHANGED pm_done
        /\ UNCHANGED <<pm_ever, pmOthers>>

\* ClaudeProcess.start has ended (lines 53-95) and get_or_create_process goes on
\* to its return (lines 499-511): with the CLI answering, the handle runs and
\* is registered; else ClaudeProcessError leaves the call.
ProcessStarted(c, ok) ==
    LET call == pm_calls[c]
        h == call.process
        handles1 == [pm_handles EXCEPT ![h].is_running = TRUE,
                                       ![h].returned = 1]
        active1 == pm_active \cup {h}
        session1 == IF call.session_id # Absent
                    THEN [pm_session EXCEPT ![call.session_id] = h]
                    ELSE pm_session
    IN  /\ call.pc = "start"
        /\ pm_calls' = [pm_calls EXCEPT ![c] = IdleProcCall]
        /\ IF ok
           THEN /\ pm_handles' = handles1
                /\ pm_active' = active1
                /\ pm_session' = session1
                /\ pm_ever' = pm_ever \cup {h}
                /\ pm_done' = [ProcDone("get_or_create_process", call.session_id,
                                        h, FALSE, call.stale, call.pre,
                                        Registries(handles1, active1, session1))
                                  EXCEPT !.ever = pm_ever \cup {h}]
           ELSE /\ pm_done' = ProcDone("get_or_create_process", call.session_id,
                                       0, TRUE, call.stale, call.pre, ProcNow)
                /\ UNCHANGED <<pm_handles, pm_active, pm_session, pm_ever>>
        /\ UNCHANGED <<pm_ops, pmOthers>>

PmIdle ==
    /\ pm_handles = << >>
    /\ pm_active = {}
    /\ pm_session = [sid \in ProcSids |-> 0]
    /\ pm_calls = [c \in ProcCallers |-> IdleProcCall]
    /\ pm_done = NoProcDone
    /\ pm_ever = {}
    /\ pm_ops = 0

ExtraIdle ==
    SendIdle /\ PortIdle /\ DecodeIdle /\ TodoIdle /\ MgrIdle /\ PmIdle

KeyIdle ==
    /\ api_key_enabled = FALSE
    /\ clock = 0
    /\ usage_storage = [k \in PresentedKeys |-> NoUsage]
    /\ key_result = NoResult
    /\ key_hist = [k \in PresentedKeys |-> << >>]

Init == KeyIdle /\ GateIdle /\ StreamIdle /\ SessIdle /\ ExtraIdle

Next ==
    \/ \E i \in Slots, u \in Users, stream \in BOOLEAN, messages \in MessageLists :
          ChatCompletions(i, u, stream, messages)
    \/ \E i \in Slots : GocRemoved(i)
    \/ \E i \in Slots : GocDb(i)
    \/ \E i \in Slots : CreateWait(i)
    \/ \E i \in Slots : Created(i)
    \/ \E i \in Slots : AddMsgRow(i)
    \/ \E i \in Slots : GetProcess(i)
    \/ \E i \in Slots, ok \in BOOLEAN : ProcStarted(i, ok)
    \/ \E i \in Slots, e \in ConvIds \cup {Absent}, ok \in BOOLEAN : BackendReply(i, e, ok)
    \/ \E i \in Slots : UpdateWait(i)
    \/ \E i \in Slots : UpdateRemoved(i)
    \/ \E i \in Slots : UpdateDone(i)
    \/ \E i \in Slots, e \in ConvIds \cup {Absent}, ok \in BOOLEAN : StreamBackend(i, e, ok)
    \/ SweepStart
    \/ SweepResume
    \/ Tick
    \/ Crash
    \/ Shutdown
    \/ Startup

Spec == Init /\ [][Next]_vars

MaxChatTime == 2

\* Time passes, as far as it takes for a session to expire once.
ChatTick == now < MaxChatTime /\ Tick

\* The chat route called with and without a user field, in one run of the
\* application.
ChatNext ==
    \/ \E i \in Slots, u \in Users, stream \in BOOLEAN :
          ChatCompletions(i, u, stream, <<"user">>)
    \/ \E i \in Slots, stream \in BOOLEAN : ChatCompletionsAnonymous(i, stream)
    \/ \E i \in Slots : GocRemoved(i)
    \/ \E i \in Slots : GocDb(i)
    \/ \E i \in Slots : CreateWait(i)
    \/ \E i \in Slots : Created(i)
    \/ \E i \in Slots : AddMsgRow(i)
    \/ \E i \in Slots : GetProcess(i)
    \/ \E i \in Slots, ok \in BOOLEAN : ProcStarted(i, ok)
    \/ \E i \in Slots, e \in ConvIds \cup {Absent}, ok \in BOOLEAN :
          BackendReply(i, e, ok)
    \/ \E i \in Slots : UpdateWait(i)
    \/ \E i \in Slots : UpdateRemoved(i)
    \/ \E i \in Slots : UpdateDone(i)
    \/ \E i \in Slots, e \in ConvIds \cup {Absent}, ok \in BOOLEAN :
          StreamBackend(i, e, ok)
    \/ ChatTick

SpecChat == Init /\ [][ChatNext]_vars


\* The backend stream is any sequence of at most MaxLines lines that either ends
\* (raises_at = 0) or raises when its raises_at-th item is asked for.
InitStream ==
    /\ KeyIdle
    /\ GateIdle
    /\ SessIdle
    /\ ExtraIdle
    /\ claude_output \in
           { [lines |-> q, raises_at |-> r] :
                 q \in SeqsUpTo(StreamLines, MaxLines), r \in 0..(MaxLines + 1) }
    /\ claude_output.raises_at <= Len(claude_output.lines) + 1
    /\ st_pc = "initial"
    /\ st_next = 1
    /\ parsed_contents = << >>
    /\ sse = << >>

StreamNext ==
    \/ EmitInitial
    \/ ConsumeLine
    \/ EmitSummary
    \/ EmitFinish
    \/ EmitDone
    \/ EmitError

SpecStream == InitStream /\ [][StreamNext]_vars

InitKey == KeyInit /\ GateIdle /\ StreamIdle /\ SessIdle /\ ExtraIdle

InitGate ==
    /\ KeyInit
    /\ gate_request \in GateRequests
    /\ gate_response = NoResult
    /\ StreamIdle
    /\ SessIdle
    /\ ExtraIdle

GateNext ==
    \/ Dispatch
    \/ GateTick

SpecGate == InitGate /\ [][GateNext]_vars

\* Whether the request carries a key in one of the three places the gate looks
\* at: bearer credentials, a non-empty api_key query parameter, or (for a method
\* with a body) an api_key member of a JSON object body.
CarriesKey(request) ==
    \/ \E k \in PresentedKeys \cup {""} :
           request.authorization \in {"Bearer " \o k, "bearer " \o k, "BEARER " \o k}
    \/ request.query_api_key \notin {Absent, ""}
    \/ /\ request.method \in {"POST", "PUT", "PATCH"}
       /\ request.body.kind = "object_key"

NeedsNoKey(path) ==
    \/ path \in {"/health", "/docs", "/redoc", "/openapi.json", "/favicon.ico", "/",
                 "/v1/models", "/models"}
    \/ (Len(path) >= 7 /\ SubSeq(path, 1, 7) = "/static")

\* C10: with key-auth enabled, a request without a key passes the gate if and
\* only if its path is one of the eight excluded paths or starts with /static;
\* every other request without a key is answered 401 missing_api_key and the
\* inner route handler is not invoked for it.
C10_KeylessPassesIffExcluded ==
    (api_key_enabled /\ gate_response # NoResult /\ ~CarriesKey(gate_request)) =>
        IF NeedsNoKey(gate_request.path)
        THEN gate_response.handler_invoked
        ELSE /\ ~gate_response.handler_invoked
             /\ gate_response.status = 401
             /\ gate_response.type = "missing_api_key"

\* The part of C10 the code keeps: without a key the inner handler runs if and
\* only if the path is excluded.
C10_KeylessNeverReachesHandler ==
    (api_key_enabled /\ gate_response # NoResult /\ ~CarriesKey(gate_request)) =>
        (gate_response.handler_invoked <=> NeedsNoKey(gate_request.path))

\* A keyless request to a mounted health path has been refused.
C10_Witness ==
    /\ api_key_enabled
    /\ gate_request.path = "/v1/live"
    /\ ~CarriesKey(gate_request)
    /\ gate_response # NoResult
    /\ gate_response.status = 401

SpecKey == InitKey /\ [][KeyNext]_vars

\* C1: with key-auth enabled, within one quota period of a configured key whose
\* max_requests is N exactly the first N validations succeed and every later
\* one is rejected with rate_limit_exceeded, and the counter of the usage record
\* always lies in 0..N.  (A quota period is the life of the period bounds of the
\* key's usage record: from its creation or roll-over to the next roll-over or
\* administrative reset.)
C1_QuotaExactlyN ==
    api_key_enabled =>
        \A i \in 1..Len(api_keys) :
            LET k == api_keys[i].key
                N == api_keys[i].max_requests
                h == key_hist[k]
            IN  /\ \A j \in 1..Len(h) :
                       h[j] = IF j <= N THEN "ok" ELSE "rate_limit_exceeded"
                /\ usage_storage[k] # NoUsage =>
                       /\ usage_storage[k].current_period_requests >= 0
                       /\ usage_storage[k].current_period_requests <= N
                       /\ usage_storage[k].current_period_requests = Min(Len(h), N)

\* The N+1st validation of a period has been rejected after N successes.
C1_Witness ==
    /\ api_key_enabled
    /\ key_hist["key-day-0001"] = <<"ok", "ok", "rate_limit_exceeded">>
    /\ key_result.op = "validate"
    /\ key_result.error.type = "rate_limit_exceeded"
    /\ usage_storage["key-day-0001"].current_period_requests = 2

\* C11: with key-auth enabled, a validation of a key that matches no configured
\* key exactly returns the error kind invalid_api_key, and the step neither
\* creates nor modifies a usage record.
C11_UnknownKeyRejected ==
    [][\A k \in PresentedKeys \ ConfiguredKeys :
           (api_key_enabled /\ validate_api_key(k)) =>
               /\ ~key_result'.valid
               /\ key_result'.error = invalid_key
               /\ usage_storage' = usage_storage]_vars

\* An unknown key has been refused while a configured key has a usage record.
C11_Witness ==
    /\ api_key_enabled
    /\ key_result.op = "validate"
    /\ key_result.key = "key-unknown1"
    /\ key_result.error.type = "invalid_api_key"
    /\ usage_storage["key-day-0001"] # NoUsage
    /\ usage_storage["key-day-0001"].current_period_requests = 1

\* C12: a validation that finds a usage record whose period_end is in the past
\* resets it before the quota check: the call is accepted (also when the key was
\* exhausted in the elapsed period), the counter is 1 after it, and the new
\* period bounds contain the time of the call.
C12_RolloverOnValidation ==
    (key_result.op = "validate" /\ key_result.before # NoUsage
         /\ key_result.at > key_result.before.period_end) =>
        LET usage == usage_storage[key_result.key]
        IN  /\ key_result.valid
            /\ usage # NoUsage
            /\ usage.current_period_requests = 1
            /\ usage.period_start <= key_result.at
            /\ key_result.at < usage.period_end
            /\ usage.period_end > key_result.before.period_end

\* A key that was exhausted in the elapsed period has been accepted again.
C12_Witness ==
    /\ key_result.op = "validate"
    /\ key_result.key = "key-day-0001"
    /\ key_result.before # NoUsage
    /\ key_result.at > key_result.before.period_end
    /\ key_result.before.current_period_requests = 2
    /\ key_result.valid
    /\ usage_storage["key-day-0001"].current_period_requests = 1

\* C13: reset_usage on a key that has a usage record returns success and
\* deletes the record; a reset_usage of the same key directly after it returns
\* the not-found result and changes nothing; and the validation that follows a
\* reset of the key is accepted and creates a fresh usage record whose counter
\* is 1 and whose period contains the time of the call, whatever the counter was
\* before the reset.
C13_ResetTwiceThenFresh ==
    [][\A k \in ConfiguredKeys :
           /\ (usage_storage[k] # NoUsage /\ reset_usage(k)) =>
                  (key_result'.done /\ usage_storage'[k] = NoUsage)
           /\ (LastReset(k) # NoResult /\ key_result.done /\ reset_usage(k)) =>
                  (~key_result'.done /\ usage_storage' = usage_storage)
           /\ (LastReset(k) # NoResult /\ api_key_enabled /\ validate_api_key(k)) =>
                  /\ key_result'.valid
                  /\ usage_storage'[k] # NoUsage
                  /\ usage_storage'[k].current_period_requests = 1
                  /\ usage_storage'[k].period_start <= clock
                  /\ clock < usage_storage'[k].period_end]_vars

\* An exhausted key was reset (success), reset again (not found) and then
\* validated: count >= 0 on a not-found result means a successful reset came
\* directly before it.
C13_Witness ==
    /\ key_result.op = "validate"
    /\ key_result.key = "key-day-0001"
    /\ key_result.valid
    /\ key_result.after # NoResult
    /\ ~key_result.after.done
    /\ key_result.after.count = 2
    /\ usage_storage["key-day-0001"].current_period_requests = 1

\* C14: every rate_limit_exceeded rejection carries a retry_after field, and its
\* value is the whole number of seconds (clock ticks) from the call to
\* period_end of the usage record.
C14_RetryAfterCarried ==
    (key_result.op = "validate" /\ key_result.error.type = "rate_limit_exceeded") =>
        /\ key_result.error.has_retry_after
        /\ key_result.error.retry_after =
               usage_storage[key_result.key].period_end - key_result.at

\* What holds of C14: the field is there with that value unless the value is 0.
C14_RetryAfterUnlessZero ==
    (key_result.op = "validate" /\ key_result.error.type = "rate_limit_exceeded") =>
        LET seconds == usage_storage[key_result.key].period_end - key_result.at
        IN  /\ seconds >= 0
            /\ key_result.error.has_retry_after <=> (seconds # 0)
            /\ key_result.error.has_retry_after =>
                   key_result.error.retry_after = seconds

\* A rejection at the very end of the period: the reply has no retry_after.
C14_Witness ==
    /\ key_result.op = "validate"
    /\ key_result.error.type = "rate_limit_exceeded"
    /\ key_result.at = usage_storage[key_result.key].period_end
    /\ ~key_result.error.has_retry_after

(***************************************************************************)
(*                 Properties of the Streaming Translator                  *)
(***************************************************************************)

\* The lines of claude_output the generator has consumed so far.
ConsumedLines == SubSeq(claude_output.lines, 1, st_next - 1)

NonBlank(line) == ~IsBlank(line)

\* A per-line content chunk: a chunk carrying text, neither the initial chunk
\* (which has a role), nor the summary, nor the finish chunk.
IsLineChunk(frame) ==
    /\ frame.kind = "chunk"
    /\ frame.role = Absent
    /\ frame.content # Absent
    /\ frame.side # "claude_analysis"
    /\ frame.finish_reason = Absent

RECURSIVE ContentsFrom(_, _)
ContentsFrom(frames, i) ==
    IF i > Len(frames) THEN << >>
    ELSE IF IsLineChunk(frames[i])
         THEN <<frames[i].content>> \o ContentsFrom(frames, i + 1)
         ELSE ContentsFrom(frames, i + 1)

\* C4: for a backend line stream that ends without error the frames are, in
\* order: the initial chunk (role assistant, empty content), the per-line
\* content chunks, exactly one claude_analysis chunk iff a non-blank line was
\* received, the finish chunk (finish_reason stop), and [DONE] as the last
\* frame, once.
C4_FrameOrder ==
    (st_pc = "end" /\ claude_output.raises_at = 0) =>
        LET n == Len(sse)
            k == IF \E i \in 1..Len(claude_output.lines) :
                        NonBlank(claude_output.lines[i])
                 THEN 1 ELSE 0
        IN  /\ n >= 3 + k
            /\ sse[1] = Chunk("assistant", "", "none", Absent)
            /\ \A i \in 2..(n - 2 - k) : IsLineChunk(sse[i])
            /\ k = 1 => sse[n - 2] = Chunk(Absent, Absent, "claude_analysis", Absent)
            /\ sse[n - 1] = Chunk(Absent, Absent, "none", "stop")
            /\ sse[n] = DoneFrame

C4_Witness ==
    /\ st_pc = "end"
    /\ claude_output = [lines |-> <<"", "next step">>, raises_at |-> 0]
    /\ Len(sse) = 5
    /\ sse[2].content = "next step"
    /\ sse[3].side = "claude_analysis"

\* C5: when the translation raises, the stream ends with exactly one error
\* frame (type streaming_error, code stream_interrupted) as its last frame;
\* no [DONE], no finish chunk and no second error frame is on that path.
C5_SingleErrorFrame ==
    /\ (st_pc = "end" /\ claude_output.raises_at # 0) =>
           LET n == Len(sse)
           IN  /\ n >= 2
               /\ sse[n] = ErrorFrame("streaming_error", "stream_interrupted")
               /\ \A i \in 1..(n - 1) :
                      /\ sse[i].kind = "chunk"
                      /\ sse[i].finish_reason = Absent
    /\ \A i \in 1..Len(sse) :
           sse[i].kind = "error" => (i = Len(sse) /\ st_pc = "end")
    /\ claude_output.raises_at # 0 => st_pc \notin {"finish", "done_marker"}

C5_Witness ==
    /\ st_pc = "end"
    /\ claude_output = [lines |-> <<"Hello there", "start now">>, raises_at |-> 3]
    /\ Len(sse) = 4
    /\ sse[4].kind = "error"

\* C6: every non-blank line yielded by the backend produces exactly one chunk
\* whose delta content is the line's text, whatever its category, in the order
\* of the lines; no line's text is dropped.
C6_EveryLineOneChunk ==
    ContentsFrom(sse, 2) = SelectSeq(ConsumedLines, NonBlank)

\* What holds instead: the chunks are, in order, the non-blank lines that are
\* not classified as analysis.
NotAnalysis(line) == NonBlank(line) /\ classify_text_content(line) # "analysis"

C6_AllButAnalysisLines ==
    ContentsFrom(sse, 2) = SelectSeq(ConsumedLines, NotAnalysis)

C6_DroppedLine ==
    /\ st_pc = "end"
    /\ claude_output = [lines |-> <<"research data">>, raises_at |-> 0]
    /\ Len(sse) = 4

\* Whether the line has a keyword of the set, letter case aside.
HasKeywordOf(line, keywords) ==
    \E keyword \in keywords : Contains(text_lower(line), text_lower(keyword))

\* The category of the first keyword set, in the order error, planning,
\* thinking, execution, analysis, that has a keyword in the line.
FirstKeywordSet(line) ==
    IF HasKeywordOf(line, error_keywords) THEN "error_handling"
    ELSE IF HasKeywordOf(line, planning_keywords) THEN "planning"
    ELSE IF HasKeywordOf(line, thinking_keywords) THEN "thinking"
    ELSE IF HasKeywordOf(line, execution_keywords) THEN "execution"
    ELSE IF HasKeywordOf(line, analysis_keywords) THEN "analysis"
    ELSE "regular_text"

\* C22: every classified line has the category of the first keyword set, in
\* the order error, planning, thinking, execution, analysis, that has a
\* keyword in the line, and regular_text when no set has one.
C22_FirstSetWithKeyword ==
    \A k \in 1..Len(parsed_contents) :
        parsed_contents[k].content_type = FirstKeywordSet(parsed_contents[k].content)

\* C22, the two cases it singles out: a line with an error and a planning
\* keyword is error_handling, and a line with a thinking and an analysis
\* keyword (and none of the error or planning set) is thinking.
C22_PriorityOfOverlaps ==
    \A k \in 1..Len(parsed_contents) :
        LET p == parsed_contents[k]
            t == text_lower(p.content)
        IN  /\ (any_keyword(t, error_keywords) /\ any_keyword(t, planning_keywords))
                   => p.content_type = "error_handling"
            /\ (/\ any_keyword(t, thinking_keywords)
                /\ any_keyword(t, analysis_keywords)
                /\ ~any_keyword(t, error_keywords)
                /\ ~any_keyword(t, planning_keywords))
                   => p.content_type = "thinking"

\* The two overlapping lines have been classified.
C22_WitnessOverlaps ==
    /\ Len(parsed_contents) = 2
    /\ parsed_contents[1] = [content_type |-> "error_handling", content |-> "Plan failed"]
    /\ parsed_contents[2] = [content_type |-> "thinking", content |-> "consider data"]

\* A line with the execution keyword WebSearch has been classified as
\* regular text.
C22_Witness ==
    /\ Len(parsed_contents) = 1
    /\ parsed_contents[1] = [content_type |-> "regular_text", content |-> "use WebSearch"]

(***************************************************************************)
(*        Properties of the chat route and the Session Manager             *)
(***************************************************************************)

\* The cached session of user u.
Cached(u) == objs[Lookup(sessions, u)]

\* C2: when a chat request with a user field is answered after an earlier
\* request with the same user field was answered, and the session did not
\* expire in between, the second request used the session of the first (no
\* second session was created) and the session's message_count is strictly
\* greater than it was after the first.
C2_SecondRequestReusesSession ==
    LET e == event.reply
    IN  (e.called /\ e.prev.done /\ ~e.gap) =>
            /\ Has(sessions, e.user)
            /\ Lookup(sessions, e.user) = e.prev.obj
            /\ Cached(e.user).message_count > e.prev.count

\* What holds of C2: the same, for two requests answered in the same run of the
\* application.
C2_WithinOneRun ==
    LET e == event.reply
    IN  (e.called /\ e.prev.done /\ ~e.gap /\ e.prev.boot = boots) =>
            /\ Has(sessions, e.user)
            /\ Lookup(sessions, e.user) = e.prev.obj
            /\ Cached(e.user).message_count > e.prev.count

\* C3: in streaming and in non-streaming mode, once the backend has replied
\* and a conversation id was discovered, the session stores that id in memory
\* and in its durable row (so that the next request resumes the conversation).
C3_DiscoveredIdStored ==
    LET e == event.reply
    IN  (e.called /\ e.replied /\ e.discovered # Absent /\ ~e.gap
             /\ Has(sessions, e.user)) =>
            /\ Cached(e.user).claude_session_id = e.discovered
            /\ db_sessions[e.user] # NoRow
            /\ db_sessions[e.user].claude_session_id = e.discovered

\* What holds of C3: the same, in non-streaming mode only.
C3_NonStreamingOnly ==
    LET e == event.reply
    IN  (e.called /\ e.replied /\ e.discovered # Absent /\ ~e.gap
             /\ Has(sessions, e.user) /\ ~e.stream) =>
            /\ Cached(e.user).claude_session_id = e.discovered
            /\ db_sessions[e.user] # NoRow
            /\ db_sessions[e.user].claude_session_id = e.discovered

C8_Rehydrated ==
    LET c == event.goc
    IN  (c.called /\ c.row # NoRow /\ now <= c.row.last_activity + TimeoutTicks) =>
            /\ c.outcome = "rehydrated"
            /\ Has(sessions, c.id)
            /\ Cached(c.id).claude_session_id = c.row.claude_session_id
            /\ last_done[c.id].done =>
                   Cached(c.id).message_count >= last_done[c.id].count

\* C9: after the application was shut down and started again,
\* get_or_create_session for a session that was live and not expired at the
\* shutdown finds its durable row and loads it with its conversation id; it
\* does not create a new session.
C9_SurvivesRestart ==
    LET c == event.goc
    IN  (c.called /\ c.after_stop.live
             /\ now <= c.after_stop.last_activity + TimeoutTicks) =>
            /\ c.row # NoRow
            /\ c.outcome = "rehydrated"
            /\ Has(sessions, c.id)
            /\ Cached(c.id).claude_session_id = c.after_stop.claude_session_id

\* C16: a chat-completions request whose messages list is empty, or holds no
\* message of role user, is answered 400 with error.type invalid_request_error,
\* and the step leaves the session objects, the session cache, the durable
\* sessions and messages, the process handles and their index as they were.
C16_InvalidRequestRejected ==
    [][\A i \in Slots, u \in Users, stream \in BOOLEAN, messages \in MessageLists :
          (/\ ChatCompletions(i, u, stream, messages)
           /\ \/ messages = << >>
              \/ \A k \in 1..Len(messages) : messages[k] # "user")
          => /\ event'.reply.called
             /\ event'.reply.status = 400
             /\ event'.reply.type = "invalid_request_error"
             /\ UNCHANGED <<objs, sessions, db_sessions, db_messages, procs,
                            session_processes, reqs>>]_vars

\* Both kinds of request have been answered: here one with a system and an
\* assistant message only, after a session of the same user exists.
C16_Witness ==
    /\ event.reply.called
    /\ event.reply.status = 400
    /\ event.reply.messages = <<"system", "assistant">>
    /\ Has(sessions, event.reply.user)

\* An empty messages list has been answered.
C16_WitnessEmpty ==
    /\ event.reply.called
    /\ event.reply.status = 400
    /\ event.reply.messages = << >>

\* C17: a backend process failure during a chat-completions request is answered
\* 500 with error type claude_process_error, both when the CLI cannot be
\* initialised as the handle is created and when the run of the CLI fails
\* while a non-streaming reply is collected.
C17_BackendFailureIsProcessError ==
    [][\A i \in Slots :
          (\/ ProcStarted(i, FALSE)
           \/ \E e \in ConvIds \cup {Absent} : BackendReply(i, e, FALSE))
          => /\ event'.reply.called
             /\ event'.reply.status = 500
             /\ event'.reply.type = "claude_process_error"]_vars

\* C17, the first case alone: a handle that cannot be initialised is answered
\* 500 claude_process_error.
C17_StartFailureIsProcessError ==
    [][\A i \in Slots :
          ProcStarted(i, FALSE)
          => /\ event'.reply.called
             /\ event'.reply.status = 500
             /\ event'.reply.type = "claude_process_error"]_vars

\* C17, the second case as the route answers it: a run that fails while the
\* non-streaming reply is collected is answered 500 internal_server_error.
C17_CollectFailureIsInternalError ==
    [][\A i \in Slots, e \in ConvIds \cup {Absent} :
          BackendReply(i, e, FALSE)
          => /\ event'.reply.called
             /\ event'.reply.status = 500
             /\ event'.reply.type = "internal_server_error"]_vars

\* A non-streaming request whose backend run reported a conversation id and
\* then failed has been answered.
C17_Witness ==
    /\ event.reply.called
    /\ ~event.goc.called
    /\ ~event.reply.stream
    /\ event.reply.status = 500
    /\ event.reply.type = "internal_server_error"
    /\ event.reply.discovered # Absent

(***************************************************************************)
(*                      Properties of send_message                         *)
(***************************************************************************)


MainIdle == KeyIdle /\ GateIdle /\ StreamIdle /\ SessIdle

InitSend ==
    /\ MainIdle /\ SendIdle /\ PortIdle /\ DecodeIdle /\ TodoIdle /\ MgrIdle
    /\ PmIdle

SendNext ==
    \/ SendStart
    \/ \E ok \in BOOLEAN : Spawned(ok)
    \/ ProcessWrites
    \/ \E ok \in BOOLEAN, stderr_output \in StderrOutputs :
          ProcessExits(ok, stderr_output)
    \/ ReadYield
    \/ Resume
    \/ ReadEOF
    \/ CancelAtAwait
    \/ Terminated
    \/ CancelAtYield
    \/ Finalize

SpecSend == InitSend /\ [][SendNext]_vars

\* C15: when the consumer of send_message is cancelled while the subprocess is
\* still running, the subprocess has been terminated and its exit awaited by
\* the time the cancellation has propagated to the consumer, and no output item
\* was yielded after the cancellation began.
C15_CancelTerminatesBackend ==
    (sm_consumer = "cancelled" /\ sm_cancel.running) =>
        /\ sm_proc = "terminated"
        /\ sm_items = sm_cancel.items

\* What holds of C15: the same for a cancellation that arrives while the
\* consumer waits for the next item.
C15_CancelledWhileWaiting ==
    (sm_consumer = "cancelled" /\ sm_cancel.running /\ sm_cancel.at = "await") =>
        /\ sm_proc = "terminated"
        /\ sm_items = sm_cancel.items

\* No item is yielded after a cancellation, wherever it arrived.
C15_NothingYieldedAfterCancel ==
    sm_cancel.at # "none" => sm_items = sm_cancel.items

\* The consumer was cancelled while it held an item; the generator has been
\* closed and the subprocess still runs.
C15_Witness ==
    /\ sm_cancel.at = "yield"
    /\ sm_cancel.running
    /\ sm_consumer = "cancelled"
    /\ sm_pc = "closed"
    /\ sm_proc = "running"

(***************************************************************************)
(*                Properties of the port manager and launcher              *)
(***************************************************************************)

InitPort ==
    /\ MainIdle /\ SendIdle /\ DecodeIdle /\ TodoIdle /\ MgrIdle /\ PmIdle
    /\ used_ports = {}
    /\ given_ports = {}
    /\ os_ports \in SUBSET PortRange
    /\ port_result = NoPortResult
    /\ config_port \in ConfiguredPorts
    /\ launch = NoLaunch

PortNext ==
    \/ FindAvailablePort
    \/ \E port \in Ports : ReservePort(port)
    \/ \E port \in Ports : ReleasePort(port)
    \/ ClearUsedPorts
    \/ \E port \in PortRange : OsListen(port)
    \/ \E arg \in PortArgs : StartServer(arg)
    \/ \E configured \in ConfiguredPorts : PortBoot(configured)

SpecPort == InitPort /\ [][PortNext]_vars

\* C18: a launcher started with --port 0 or without --port selects its port by
\* automatic discovery within the configured range, and it listens on a fixed
\* port only when a non-zero --port was given.
C18_DiscoveryUnlessPortGiven ==
    launch.called =>
        IF launch.arg = {} \/ launch.arg = {0}
        THEN launch.discovered /\ (~launch.exited => launch.port \in PortRange)
        ELSE ~launch.discovered /\ launch.arg = {launch.port}

\* C18 as the launcher behaves: a non-zero --port is the port listened on;
\* otherwise the port is discovered exactly when the configured port
\* (Config.port) is 0, and else the configured port is kept.
C18_DiscoveryOnlyWhenConfiguredZero ==
    launch.called =>
        IF launch.arg = {} \/ launch.arg = {0}
        THEN /\ launch.discovered <=> launch.env = 0
             /\ ~launch.discovered => launch.port = launch.env
        ELSE ~launch.discovered /\ launch.arg = {launch.port}

\* The launcher was started without --port under the default configuration
\* and listens on the default port without any discovery.
C18_Witness ==
    /\ launch.called
    /\ launch.arg = {}
    /\ launch.env = default_port
    /\ ~launch.discovered
    /\ launch.port = default_port
    /\ port_result.op = "none"

C19_GivenPortsReserved == given_ports \subseteq used_ports

C19_WitnessExhausted ==
    /\ port_result.op = "find"
    /\ ~port_result.ok
    /\ port_result.before # {}
    /\ port_result.listening # {}
    /\ used_ports = port_result.before

(***************************************************************************)
(*                  Properties of the byte-wise reader                     *)
(***************************************************************************)

InitDecode ==
    /\ MainIdle /\ SendIdle /\ PortIdle /\ TodoIdle /\ MgrIdle /\ PmIdle
    /\ dec_units \in SeqsUpTo(Units, MaxChars)
    /\ dec_pc = "reading"
    /\ dec_pos = 0
    /\ byte_buffer = << >>
    /\ line_buffer = << >>
    /\ appended = << >>
    /\ line_count = 0
    /\ discarded = FALSE

DecodeNext == DecodeByte \/ DecodeEOF

SpecDecode == InitDecode /\ [][DecodeNext]_vars

\* The stream is valid UTF-8: every unit of it is.
ValidStream == \A k \in 1..Len(dec_units) : dec_units[k] \in ValidUnits

\* How many units of the stream have been read to their last byte.
RECURSIVE UnitsWithin(_, _)
UnitsWithin(units, n) ==
    IF units = << >> \/ Len(Head(units)) > n THEN 0
    ELSE 1 + UnitsWithin(Tail(units), n - Len(Head(units)))

\* C20: read one byte at a time, a valid UTF-8 stream puts into the line
\* buffer exactly the characters whose last byte has been read, each decoded
\* once and correctly, whatever number of reads its bytes took; no bytes are
\* given up, and at the end of the stream the text appended is the decoding of
\* the whole stream.
C20_ByteWiseDecoding ==
    ValidStream =>
        LET done == UnitsWithin(dec_units, dec_pos)
        IN  /\ Len(appended) = done
            /\ \A k \in 1..done : appended[k] = CodePoint(dec_units[k])
            /\ ~discarded
            /\ Len(byte_buffer) <= 3
            /\ dec_pc = "done" =>
                   /\ byte_buffer = << >>
                   /\ decode(StdoutBytes) = [ok |-> TRUE, text |-> appended]

\* A two-byte, a four-byte and a three-byte character have been read to the
\* end of the stream.
C20_Witness ==
    /\ dec_pc = "done"
    /\ dec_units = << <<195, 169>>, <<240, 159, 152, 128>>, <<228, 184, 173>> >>
    /\ appended = <<233, 128512, 20013>>

\* The second byte of a two-byte character is about to be read: the first
\* one waits in the byte buffer and nothing was appended for it.
C20_WitnessSplit ==
    /\ dec_pc = "reading"
    /\ dec_units = << <<65>>, <<195, 169>> >>
    /\ byte_buffer = <<195>>
    /\ appended = <<65>>

(***************************************************************************)
(*                 Properties of the TodoWrite display                     *)
(***************************************************************************)

InitTodo ==
    /\ MainIdle /\ SendIdle /\ PortIdle /\ DecodeIdle /\ MgrIdle /\ PmIdle
    /\ todo_input \in SeqsUpTo(TodoItems, MaxTodos)
    /\ todo_display = NoDisplay

TodoNext == FormatTodoWrite

SpecTodo == InitTodo /\ [][TodoNext]_vars

\* The emoji the claim names for a status.
EmojiOf(status) ==
    IF status = "in_progress" THEN "U+1F504"
    ELSE IF status = "completed" THEN "U+2705"
    ELSE IF status = "pending" \/ status = Absent THEN "U+23F3"
    ELSE "U+1F4DD"

\* C21: for a non-empty todo list the action label is the update label if
\* some item is in_progress, else the complete label if every item is
\* completed, else the create label; and each item line shows the item's
\* activeForm when that is present and not blank, its content otherwise,
\* after the emoji of its status.
C21_TodoDisplay ==
    (todo_display # NoDisplay /\ todo_input # << >>) =>
        LET todos == todo_input
            n == Len(todos)
            shown(t) == IF t.activeForm \in {"Fixing bug"} THEN t.activeForm
                        ELSE t.content
        IN  /\ todo_display.action =
                   IF \E k \in 1..n : todos[k].status = "in_progress"
                   THEN UpdateLabel
                   ELSE IF \A k \in 1..n : todos[k].status = "completed"
                   THEN CompleteLabel
                   ELSE CreateLabel
            /\ Len(todo_display.lines) = n
            /\ \A k \in 1..n :
                  todo_display.lines[k] =
                      "  " \o EmojiOf(todos[k].status) \o " " \o shown(todos[k])
                          \o "\n"

\* A list with a completed item and one whose activeForm is blank has been
\* rendered.
C21_Witness ==
    /\ todo_display # NoDisplay
    /\ Len(todo_input) = 2
    /\ todo_input[1].status = "completed"
    /\ todo_input[2].status = "pending"
    /\ todo_input[2].activeForm = "  "
    /\ todo_input[2].content = "Fix bug"
    /\ todo_display.action = CreateLabel

(***************************************************************************)
(*                The specification of the SessionManager calls             *)
(***************************************************************************)

\* The manager starts with an empty cache; the durable store is empty or
\* holds the row of a session of an earlier run.
InitMgr ==
    /\ MainIdle /\ SendIdle /\ PortIdle /\ DecodeIdle /\ TodoIdle /\ PmIdle
    /\ m_now = 0
    /\ m_objs = << >>
    /\ m_sessions = [id \in MgrIds |-> 0]
    /\ m_db \in {NoRows} \cup
                { db_create_session(NoRows, NewSession(id, 0)) : id \in CallIds }
    /\ m_msgs = [id \in MgrIds |-> 0]
    /\ m_locks = [k \in MgrIds \cup {"create"} |-> 0]
    /\ m_total = 0
    /\ m_calls = [c \in Callers |-> IdleCall]
    /\ m_done = NoDone
    /\ m_hist = [returned |-> 0, raised |-> 0]
    /\ m_mutation = NoMutation
    /\ m_started = [count |-> 0, ops |-> {}]
    /\ m_dbq = << >>
    /\ m_sweep = IdleMgrSweep
    /\ m_swept = NoSwept
    /\ m_store = [up |-> TRUE, outages |-> 0]

MgrNext ==
    \/ \E c \in Callers, id \in CallIds, call \in ApiCalls : MgrCall(c, id, call)
    \/ \E c \in Callers : MgrCreateWait(c)
    \/ \E c \in Callers : MgrCreateDb(c)
    \/ \E c \in Callers : MgrUpdateWait(c)
    \/ \E c \in Callers : MgrUpdateRemoved(c)
    \/ \E c \in Callers : MgrUpdateDb(c)
    \/ \E c \in Callers : MgrRemoveGet(c)
    \/ \E c \in Callers : MgrRemoveDel(c)
    \/ \E c \in Callers : MgrGocRemoved(c)
    \/ \E c \in Callers : MgrGocGet(c)
    \/ \E c \in Callers : MgrAmUpdate(c)
    \/ \E c \in Callers : MgrAmMessage(c)
    \/ MgrTick

SpecManager == InitMgr /\ [][MgrNext]_vars

\* The call that ended last was one of method op, and no other call was under
\* way while it ran.
DoneAlone(op) == m_done.op = op /\ m_done.alone

C28_WitnessUnknown ==
    /\ DoneAlone("remove")
    /\ m_done.result = "false"
    /\ m_done.pre.obj = 0
    /\ m_done.pre.row = NoRow

\* remove_session has removed the row of an id that was not cached.
C28_WitnessRowOnly ==
    /\ DoneAlone("remove")
    /\ m_done.result = "true"
    /\ m_done.pre.obj = 0
    /\ m_done.pre.row # NoRow

\* The one element of a set that holds an optional value.
The(option) == CHOOSE x \in option : TRUE

\* update_session finds no live session: the id is not cached, or the cached
\* session is expired when the call is made.
UpdateFindsNone ==
    \/ m_done.pre.obj = 0
    \/ is_expired(m_done.pre.session, m_done.at)

\* The row with the changes of the request in it, the metadata as `meta`.
RowWith(row, request, session, meta) ==
    [row EXCEPT
        !.claude_session_id = IF request.claude_session_id # Absent
                              THEN request.claude_session_id ELSE @,
        !.is_active = IF request.is_active # {} THEN The(request.is_active) ELSE @,
        !.metadata = IF request.metadata # {} THEN meta ELSE @,
        !.last_activity = session.last_activity]

\* update_session raised and applied nothing of the request: the id is not
\* cached, a row is as it was or deleted, and a session that was cached has
\* the conversation id, metadata and last_activity it had.
UpdateRefused ==
    /\ m_done.result = "SessionError"
    /\ m_done.post.obj = 0
    /\ m_done.post.row \in {m_done.pre.row, NoRow}
    /\ m_done.pre.obj # 0 =>
          m_objs[m_done.pre.obj] = [m_done.pre.session EXCEPT !.is_active = FALSE]

\* update_session returned the cached session with the changes applied and
\* last_activity bumped, and the row holds the changes, the metadata encoded
\* `encodings` times.
UpdateApplied(encodings) ==
    /\ m_done.result = "session"
    /\ m_done.returned = m_done.pre.obj
    /\ m_done.post.obj = m_done.pre.obj
    /\ m_done.post.session =
           update_activity(apply_to_session(m_done.request, m_done.pre.session),
                           m_done.at)
    /\ m_done.pre.row # NoRow =>
          m_done.post.row =
              RowWith(m_done.pre.row, m_done.request, m_done.post.session,
                      [The(m_done.request.metadata) EXCEPT !.encoded = encodings])

\* C29: update_session, with no other call under way, raises SessionError
\* exactly when the id is not cached or the cached session is expired, and
\* then applies nothing of the request; otherwise it applies the changes to
\* the cached session, bumps last_activity and writes the same changes to
\* the row, the metadata as the JSON text of the dict, as the store keeps it.
C29_UpdateSession ==
    DoneAlone("update") =>
        IF UpdateFindsNone THEN UpdateRefused ELSE UpdateApplied(1)

\* What holds instead: as above, but the metadata of the row is the JSON text
\* of the JSON text of the dict.
C29_UpdateSessionEncodesTwice ==
    DoneAlone("update") =>
        IF UpdateFindsNone THEN UpdateRefused ELSE UpdateApplied(2)

\* update_session has written metadata: the store's reader, which decodes
\* once, gets a text where the cached session has a dict.
C29_Witness ==
    /\ DoneAlone("update")
    /\ m_done.result = "session"
    /\ m_done.request.metadata # {}
    /\ m_done.post.session.metadata = Dict({"tag"})
    /\ json_loads(m_done.post.row.metadata) # m_done.post.session.metadata
    /\ json_loads(m_done.post.row.metadata) = json_dumps(Dict({"tag"}))

\* update_session has raised for a cached session that was expired.
C29_WitnessExpired ==
    /\ DoneAlone("update")
    /\ m_done.result = "SessionError"
    /\ m_done.pre.obj # 0
    /\ m_done.post.row = NoRow

\* update_session has stored a conversation id in the session and the row.
C29_WitnessApplied ==
    /\ DoneAlone("update")
    /\ m_done.result = "session"
    /\ m_done.post.session.claude_session_id = "conv-1"
    /\ m_done.post.row.claude_session_id = "conv-1"

\* add_message_to_session was called with a conversation id, with no other
\* call under way, and returned.
AddedWithId ==
    /\ DoneAlone("addmsg")
    /\ m_done.request.claude_session_id # Absent
    /\ m_done.result = "session"

\* C30: after add_message_to_session with a conversation id, the id is on the
\* cached session and in the session's row, and one message row was appended.
C30_AddMessageRecordsId ==
    AddedWithId =>
        /\ m_done.post.obj = m_done.returned
        /\ m_done.post.session.claude_session_id = m_done.request.claude_session_id
        /\ m_done.post.row # NoRow
        /\ m_done.post.row.claude_session_id = m_done.request.claude_session_id
        /\ m_done.post.messages = m_done.pre.messages + 1

\* What holds instead: the id is on the cached session and one message row
\* was appended; the row of the session has the conversation id it had, or
\* none if the call created the row.
C30_AddMessageIdInCacheOnly ==
    AddedWithId =>
        /\ m_done.post.obj = m_done.returned
        /\ m_done.post.session.claude_session_id = m_done.request.claude_session_id
        /\ m_done.post.row # NoRow
        /\ m_done.post.row.claude_session_id =
               IF m_done.pre.row # NoRow /\ m_done.pre.obj # 0
                  /\ ~is_expired(m_done.pre.session, m_done.at)
               THEN m_done.pre.row.claude_session_id ELSE Absent
        /\ m_done.post.row.last_activity = m_done.post.session.last_activity
        /\ m_done.post.messages = m_done.pre.messages + 1

\* add_message_to_session has returned a session that carries the
\* conversation id while its row does not.
C30_Witness ==
    /\ AddedWithId
    /\ m_done.post.session.claude_session_id = "conv-1"
    /\ m_done.post.row # NoRow
    /\ m_done.post.row.claude_session_id = Absent
    /\ m_done.post.messages = 1

(***************************************************************************)
(*        The specification of the calls beside failures of the store       *)
(***************************************************************************)

\* The cache is empty, or holds a session with its row; the store works.
InitFail ==
    /\ MainIdle /\ SendIdle /\ PortIdle /\ DecodeIdle /\ TodoIdle /\ PmIdle
    /\ m_now = 0
    /\ \E id \in CallIds, cached \in BOOLEAN, stored \in BOOLEAN :
          /\ cached => stored
          /\ m_objs = IF cached THEN <<NewSession(id, 0)>> ELSE << >>
          /\ m_sessions = [k \in MgrIds |-> IF cached /\ k = id THEN 1 ELSE 0]
          /\ m_db = IF stored THEN db_create_session(NoRows, NewSession(id, 0))
                    ELSE NoRows
          /\ m_total = IF cached THEN 1 ELSE 0
    /\ m_msgs = [id \in MgrIds |-> 0]
    /\ m_locks = [k \in MgrIds \cup {"create"} |-> 0]
    /\ m_calls = [c \in Callers |-> IdleCall]
    /\ m_done = NoDone
    /\ m_hist = [returned |-> 0, raised |-> 0]
    /\ m_mutation = NoMutation
    /\ m_started = [count |-> 0, ops |-> {}]
    /\ m_dbq = << >>
    /\ m_sweep = IdleMgrSweep
    /\ m_swept = NoSwept
    /\ m_store = [up |-> TRUE, outages |-> 0]

FailNext ==
    \/ \E c \in Callers, id \in CallIds, call \in FailCalls : FailCall(c, id, call)
    \/ \E c \in Callers : MgrCreateWait(c)
    \/ \E c \in Callers : MgrCreateDb(c)
    \/ \E c \in Callers : MgrUpdateWait(c)
    \/ \E c \in Callers : MgrUpdateRemoved(c)
    \/ \E c \in Callers : MgrUpdateDb(c)
    \/ \E c \in Callers : MgrGocRemoved(c)
    \/ \E c \in Callers : MgrGocGet(c)
    \/ \E c \in Callers : MgrAmUpdate(c)
    \/ \E c \in Callers : MgrAmMessage(c)
    \/ MgrTick
    \/ StoreFails
    \/ StoreRecovers

SpecFail == InitFail /\ [][FailNext]_vars

(***************************************************************************)
(*             Properties of the calls beside failures of the store         *)
(***************************************************************************)

\* A durable-store call failed during the call that ended last, which ran
\* with no other call under way.
DoneWithFailure(op) == DoneAlone(op) /\ m_done.failed

\* The call returned its session, which is the one the cache holds.
ReturnedCached ==
    /\ m_done.result = "session"
    /\ m_done.returned # 0
    /\ m_done.post.obj = m_done.returned

\* create_session and update_session with a failed durable call end as they
\* do without one: create_session raises only for an id that is cached and
\* active, update_session only if it finds no live session, and otherwise
\* they return the cached session with the changes applied.
FailureKeptFromCreateAndUpdate ==
    /\ DoneWithFailure("create") =>
          IF m_done.pre.obj # 0 /\ m_done.pre.session.is_active
          THEN m_done.result = "SessionError"
          ELSE ReturnedCached
    /\ DoneWithFailure("update") =>
          IF UpdateFindsNone
          THEN m_done.result = "SessionError"
          ELSE /\ ReturnedCached
               /\ m_done.post.session =
                      update_activity(
                          apply_to_session(m_done.request, m_done.pre.session),
                          m_done.at)

\* C31: a failure of the durable store during create_session, update_session,
\* get_or_create_session or add_message_to_session does not reach the caller:
\* the call returns the session, and the cache reflects the call.
C31_StoreFailureNotPropagated ==
    /\ FailureKeptFromCreateAndUpdate
    /\ DoneWithFailure("goc") => ReturnedCached
    /\ DoneWithFailure("addmsg") =>
          /\ ReturnedCached
          /\ m_done.post.session.claude_session_id = m_done.request.claude_session_id

\* What holds instead: get_or_create_session and add_message_to_session
\* return the cached session unless the row of an expired session, whose
\* deletion failed, is found by the lookup that follows: then TypeError is
\* raised and the id is left out of the cache.
C31_FailureKeptUnlessStaleRow ==
    /\ FailureKeptFromCreateAndUpdate
    /\ \A op \in {"goc", "addmsg"} :
          DoneWithFailure(op) =>
              \/ ReturnedCached
              \/ /\ m_done.result = "TypeError"
                 /\ m_done.pre.obj # 0
                 /\ is_expired(m_done.pre.session, m_done.at)
                 /\ m_done.post.obj = 0
                 /\ m_done.post.row = m_done.pre.row

\* get_or_create_session dropped an expired session, the deletion of its row
\* failed, and the call ended with TypeError.
C31_Witness ==
    /\ DoneWithFailure("goc")
    /\ m_done.result = "TypeError"
    /\ m_done.pre.obj # 0
    /\ m_done.post.row # NoRow

\* create_session returned the session it cached although its row could not
\* be inserted.
C31_WitnessCreate ==
    /\ DoneWithFailure("create")
    /\ ReturnedCached
    /\ m_done.post.row = NoRow

(***************************************************************************)
(*                  The specification of the cleanup task                   *)
(***************************************************************************)

SweepIds == <<"s1", "s2", "s3">>

\* The manager holds three sessions that were created when it started, each
\* with its row.
InitSweep ==
    /\ MainIdle /\ SendIdle /\ PortIdle /\ DecodeIdle /\ TodoIdle /\ PmIdle
    /\ m_now = 0
    /\ m_objs = [k \in 1..Len(SweepIds) |-> NewSession(SweepIds[k], 0)]
    /\ m_sessions = [id \in MgrIds |->
                        CHOOSE k \in 1..Len(SweepIds) : SweepIds[k] = id]
    /\ m_db = [id \in MgrIds |->
                  db_create_session(NoRows, NewSession(id, 0))[id]]
    /\ m_msgs = [id \in MgrIds |-> 0]
    /\ m_locks = [k \in MgrIds \cup {"create"} |-> 0]
    /\ m_total = Len(SweepIds)
    /\ m_calls = [c \in Callers |-> IdleCall]
    /\ m_done = NoDone
    /\ m_hist = [returned |-> 0, raised |-> 0]
    /\ m_mutation = NoMutation
    /\ m_started = [count |-> 0, ops |-> {}]
    /\ m_dbq = << >>
    /\ m_sweep = IdleMgrSweep
    /\ m_swept = NoSwept
    /\ m_store = [up |-> TRUE, outages |-> 0]

SweepNext ==
    \/ \E c \in Callers, id \in MgrIds : SweepCall(c, id)
    \/ \E c \in Callers : MgrCreateWait(c)
    \/ \E c \in Callers : MgrCreateDb(c)
    \/ \E c \in Callers : MgrGocRemoved(c)
    \/ \E c \in Callers : MgrGocGet(c)
    \/ MgrTick
    \/ SweepWakes
    \/ SweepDb
    \/ SweepError

SpecSweep == InitSweep /\ [][SweepNext]_vars

\* The cleanup loop wakes after every sleep, a durable-store call that is
\* served returns, and a task that can take the create lock takes it.
SweepFairness ==
    /\ WF_vars(SweepWakes)
    /\ WF_vars(SweepDb)
    /\ \A c \in Callers :
          WF_vars(MgrCreateWait(c) \/ MgrCreateDb(c) \/ MgrGocRemoved(c)
                      \/ MgrGocGet(c))

SpecSweepFair == SpecSweep /\ SweepFairness

(***************************************************************************)
(*                   Properties of the SessionManager calls                 *)
(***************************************************************************)

NoCallInFlight == \A c \in Callers : ~InFlight(c)

OnlyCalled(ops) == m_started.count > 0 /\ m_started.ops \subseteq ops

\* C23: of the create_session calls for one session id, concurrent or not,
\* exactly one returns a Session and every other raises SessionError; once
\* they have all ended the cache holds the session that was returned and
\* total_sessions_created has grown by exactly one.
C23_ExactlyOneCreate ==
    OnlyCalled({"create"}) =>
        /\ m_hist.returned <= 1
        /\ m_total = m_hist.returned
        /\ Len(m_objs) <= 1
        /\ NoCallInFlight =>
              /\ m_hist.returned = 1
              /\ m_hist.raised = m_started.count - 1
              /\ \A id \in CallIds : m_sessions[id] = 1
              /\ m_total = 1

\* Three create_session calls have ended, and the last to end had waited for
\* the create lock while another one was suspended on the durable insert.
C23_Witness ==
    /\ OnlyCalled({"create"})
    /\ NoCallInFlight
    /\ m_hist = [returned |-> 1, raised |-> 2]
    /\ m_done.op = "create"
    /\ m_done.result = "SessionError"
    /\ ~m_done.alone

\* C24: every change of a cached session (is_active, conversation id,
\* metadata, last_activity, message_count) and its removal from the cache is
\* made by a call that holds the lock of that session id.
C24_MutationsUnderSessionLock ==
    (m_mutation.called /\ m_mutation.what # "create") =>
        m_mutation.holder = m_mutation.caller

\* What holds instead: the changes update_session makes, and the removal of
\* an expired session by its own lookup, are made under the session's lock.
C24_UpdateSessionUnderLock ==
    (m_mutation.called /\ m_mutation.what = "update") =>
        m_mutation.holder = m_mutation.caller

\* add_message_to_session changes a session while an update_session call,
\* suspended on its durable write, holds the session's lock.
C24_Witness ==
    /\ m_mutation.called
    /\ m_mutation.what = "add_message"
    /\ m_mutation.holder \notin {0, m_mutation.caller}
    /\ m_calls[m_mutation.holder].pc = "up_db"

\* update_session has changed a session under the session's lock.
C24_WitnessUpdate ==
    /\ m_mutation.called
    /\ m_mutation.what = "update"
    /\ m_mutation.holder = m_mutation.caller
    /\ m_locks[m_mutation.id] = m_mutation.caller

\* The call that ended last was a get_or_create_session call that began when
\* its id was neither cached nor stored, and only such calls were made.
GocOnMiss ==
    /\ OnlyCalled({"goc"})
    /\ m_done.op = "goc"
    /\ m_done.pre.obj = 0
    /\ m_done.pre.row = NoRow

\* C25: get_or_create_session calls, concurrent or not, for an id that is in
\* neither the cache nor the durable store all return the one Session object
\* of the cache, and none raises.
C25_ConcurrentMissesShareSession ==
    GocOnMiss =>
        /\ m_done.result = "session"
        /\ m_done.returned = m_done.post.obj
        /\ Len(m_objs) = 1

\* What holds instead: such a call returns the cached Session if no other
\* call was under way while it ran.
C25_LoneMissCreates ==
    (GocOnMiss /\ m_done.alone) =>
        /\ m_done.result = "session"
        /\ m_done.returned = m_done.post.obj

\* Two calls missed; the second found the create lock taken, waited, and
\* raised SessionError because the first had cached the session meanwhile.
C25_Witness ==
    /\ GocOnMiss
    /\ ~m_done.alone
    /\ m_done.result = "SessionError"
    /\ m_done.post.obj # 0

\* A lone call on a miss has created the session and returned it.
C25_WitnessLone ==
    /\ GocOnMiss
    /\ m_done.alone
    /\ m_done.result = "session"
    /\ m_done.returned = 1

(***************************************************************************)
(*                      Properties of the cleanup task                      *)
(***************************************************************************)

\* Every session a pass listed is out of the cache when the pass has ended
\* without an error, and its row is gone: a row under its id belongs to a
\* session that a request is creating or has created since.
PassRemovedListed ==
    (m_sweep.pc = "sleep" /\ m_sweep.ended = "done") =>
        \A o \in m_sweep.listed :
            /\ ~MgrCached(o)
            /\ ~m_objs[o].is_active
            /\ \/ m_db[MgrIdOf(o)] = NoRow
               \/ m_sessions[MgrIdOf(o)] # 0
               \/ \E c \in Callers : InFlight(c) /\ m_calls[c].id = MgrIdOf(o)

\* The Session objects there can be.
SweepObjs == 1..(Len(SweepIds) + MaxSweepCalls)

\* A session that is cached and expired is eventually out of the cache,
\* whether or not anyone looks it up.
ExpiredEventuallyRemoved ==
    \A o \in SweepObjs :
        (o <= Len(m_objs) /\ MgrExpiredCached(o))
            ~> (o <= Len(m_objs) /\ ~MgrCached(o))

C27_SweptOnlyIfExpired ==
    m_swept.obj # 0 => m_swept.expired

\* What holds instead: a session the cleanup task removes is expired at that
\* moment if it is one of those the pass listed as expired.
C27_ListedSweptIsExpired ==
    (m_swept.obj # 0 /\ m_swept.listed) => m_swept.expired

\* The cleanup task has removed a session that a request had created, under
\* the id of a listed session, after the pass began; it was not expired.
C27_Witness ==
    /\ m_swept.obj > Len(SweepIds)
    /\ ~m_swept.expired
    /\ ~m_swept.listed
    /\ ~m_objs[m_swept.obj].is_active

\* The cleanup task has removed a session that was expired.
C27_WitnessExpired ==
    /\ m_swept.obj # 0
    /\ m_swept.expired
    /\ m_swept.listed

(***************************************************************************)
(*          The Backend Process Manager on its own                         *)
(***************************************************************************)

InitProc ==
    /\ MainIdle /\ SendIdle /\ PortIdle /\ DecodeIdle /\ TodoIdle /\ MgrIdle
    /\ PmIdle

ProcNext ==
    \/ \E c \in ProcCallers, session_id \in ProcSids \cup {Absent} :
          GetOrCreateProcess(c, session_id)
    \/ \E c \in ProcCallers, ok \in BOOLEAN : ProcessStarted(c, ok)
    \/ \E process_id \in 1..MaxHandles : RemoveProcess(process_id)
    \/ \E session_id \in ProcSids : RemoveSessionProcess(session_id)
    \/ CleanupAllProcesses
    \/ \E h \in 1..MaxHandles : HandleStops(h)
    \/ \E h \in 1..MaxHandles, session_id \in ProcSids \cup {Absent} :
          OutputObject(h, session_id)

SpecProc == InitProc /\ [][ProcNext]_vars

\* A handle is indexed under at most one conversation id, every indexed handle
\* is in active_processes, and only handles that start returned are registered.
ProcRegistriesAgree ==
    /\ \A a, b \in ProcSids :
          pm_session[a] # 0 /\ pm_session[a] = pm_session[b] => a = b
    /\ \A a \in ProcSids : pm_session[a] # 0 => pm_session[a] \in pm_active
    /\ pm_active \subseteq pm_ever

\* C32: get_or_create_process called with a conversation id that maps to a
\* running handle returns that handle and leaves both registries as they were;
\* called with one that maps to a handle that no longer runs, it takes that
\* handle out of both registries and, when it returns, returns a handle built
\* by this call, registered under its own process id and under the
\* conversation id.
C32_GetOrCreateProcess ==
    (pm_done.op = "get_or_create_process" /\ pm_done.stale # 0) =>
        IF pm_done.pre.handles[pm_done.stale].is_running
        THEN /\ ~pm_done.raised
             /\ pm_done.result = pm_done.stale
             /\ pm_done.post.active_processes = pm_done.pre.active_processes
             /\ pm_done.post.session_processes = pm_done.pre.session_processes
             /\ pm_done.post.handles[pm_done.stale].is_running
        ELSE /\ pm_done.stale \notin pm_done.post.active_processes
             /\ \A sid \in ProcSids :
                    pm_done.post.session_processes[sid] # pm_done.stale
             /\ ~pm_done.raised =>
                   /\ pm_done.result > Len(pm_done.pre.handles)
                   /\ pm_done.result \in pm_done.post.active_processes
                   /\ pm_done.post.session_processes[pm_done.arg] = pm_done.result
                   /\ pm_done.post.handles[pm_done.result].is_running

C32_Witness ==
    /\ pm_done.op = "get_or_create_process"
    /\ pm_done.stale # 0
    /\ pm_done.pre.handles[pm_done.stale].is_running
    /\ Cardinality(pm_done.pre.active_processes) = 2

C32_WitnessStale ==
    /\ pm_done.op = "get_or_create_process"
    /\ pm_done.stale # 0
    /\ ~pm_done.pre.handles[pm_done.stale].is_running
    /\ pm_done.stale \in pm_done.pre.active_processes
    /\ ~pm_done.raised
    /\ pm_done.result \in pm_done.post.active_processes

\* C33: no handle's stop is performed twice, and when cleanup_all_processes
\* has completed every handle that was registered has been stopped, once, and
\* both registries are empty.
C33_TornDownOnce ==
    /\ \A h \in 1..Len(pm_handles) : pm_handles[h].stops <= 1
    /\ pm_done.op = "cleanup_all_processes" =>
          /\ pm_done.post.active_processes = {}
          /\ \A sid \in ProcSids : pm_done.post.session_processes[sid] = 0
          /\ \A h \in pm_done.ever :
                /\ ~pm_done.post.handles[h].is_running
                /\ pm_done.post.handles[h].stops = 1

C33_Witness ==
    /\ pm_done.op = "cleanup_all_processes"
    /\ Cardinality(pm_done.pre.active_processes) = 2
    /\ \E h \in pm_done.pre.active_processes :
          pm_done.pre.handles[h].is_running
    /\ \E h \in pm_done.ever : pm_done.post.handles[h].stop_calls >= 2


(***************************************************************************)
(*          Handles and sessions in the chat route                         *)
(***************************************************************************)

\* No chat request is under way.
BetweenRequests == up /\ \A i \in Slots : reqs[i].pc = "idle"

\* C34: between requests there are at most as many registered handles as there
\* are sessions in the memory cache, so that no handle outlives the session it
\* was created for.
C34_HandlesWithinSessions ==
    BetweenRequests => Len(procs) <= Len(sessions)

\* What holds instead: handles leave active_processes at shutdown only, so
\* there are as many as requests whose start succeeded since the last startup,
\* whatever became of the sessions.
C34_Witness ==
    /\ BetweenRequests
    /\ sessions = << >>
    /\ Len(procs) >= 1
    /\ \A h \in 1..Len(procs) : procs[h].is_running


\* The conversation id handle h holds.
Held(h) == pm_handles[h].claude_session_id

\* C35: a handle takes its backend conversation id from the first output
\* object that carries a session_id, and the id never changes afterwards,
\* whatever session_id later objects carry and whichever send_message of the
\* handle reads them.
C35_ConversationIdCapturedOnce ==
    [][\A h \in 1..Len(pm_handles) :
          /\ Held(h) # Absent => pm_handles'[h].claude_session_id = Held(h)
          /\ (/\ Held(h) = Absent
              /\ pm_ops' # pm_ops
              /\ pm_done'.op = "send_message"
              /\ pm_done'.arg[1] = h)
                 => pm_handles'[h].claude_session_id = pm_done'.arg[2]
          /\ (Held(h) = Absent /\ pm_handles'[h].claude_session_id # Absent)
                 => pm_done'.op = "send_message" /\ pm_done'.arg[1] = h]_vars

\* An object with another session_id was read for a handle that held one, a
\* handle that was reused by get_or_create_process in between.
C35_Witness ==
    /\ pm_done.op = "send_message"
    /\ pm_done.pre.handles[pm_done.arg[1]].claude_session_id # Absent
    /\ pm_done.arg[2] # Absent
    /\ pm_done.arg[2] # pm_done.pre.handles[pm_done.arg[1]].claude_session_id
    /\ pm_done.pre.handles[pm_done.arg[1]].returned >= 2


\* The generator read its subprocess's output to the end.
ReadToEnd == sm_pc \in {"returned", "raised"} /\ sm_proc \in {"exited_ok", "exited_fail"}

\* C36: a non-zero exit code is reported as a ProcessError that carries the
\* text the subprocess wrote to stderr, raised after the output has ended and
\* every item of the lines read has been yielded; with exit code zero the
\* generator ends without raising.
C36_ExitCodeReported ==
    ReadToEnd =>
        /\ sm_items = sm_out.written
        /\ IF sm_proc = "exited_ok"
           THEN sm_pc = "returned" /\ sm_raised = NoneRaised
           ELSE /\ sm_pc = "raised"
                /\ sm_raised.type = "ClaudeProcessError"
                /\ sm_out.stderr # << >> =>
                       /\ sm_raised.cause = "ClaudeProcessError"
                       /\ sm_raised.text = decode(sm_out.stderr).text

\* What holds instead: the error carries the stderr output when that is UTF-8,
\* and the words of the UnicodeDecodeError when it is not.
C36_ExitCodeReportedIfUtf8 ==
    ReadToEnd =>
        /\ sm_items = sm_out.written
        /\ IF sm_proc = "exited_ok"
           THEN sm_pc = "returned" /\ sm_raised = NoneRaised
           ELSE /\ sm_pc = "raised"
                /\ sm_raised.type = "ClaudeProcessError"
                /\ sm_raised =
                       IF sm_out.stderr = << >>
                       THEN Wrapped("ClaudeProcessError", UnknownError)
                       ELSE IF decode(sm_out.stderr).ok
                            THEN Wrapped("ClaudeProcessError",
                                         decode(sm_out.stderr).text)
                            ELSE Wrapped("UnicodeDecodeError", CodecError)

C36_Witness ==
    /\ ReadToEnd
    /\ sm_proc = "exited_fail"
    /\ sm_items = 2
    /\ ~decode(sm_out.stderr).ok
    /\ sm_raised.cause = "UnicodeDecodeError"

C36_WitnessText ==
    /\ ReadToEnd
    /\ sm_proc = "exited_fail"
    /\ sm_items = 2
    /\ sm_raised.text = <<233>>


(***************************************************************************)
(*          The conversation a request resumes                             *)
(***************************************************************************)

\* Handle h was built with a conversation id: its runs pass it with -r
\* (_build_query_command, claude_service.py 370-372).
RunsWithR(h) == procs[h].session_id # Absent

\* C37: the conversation id a request passes with -r was discovered from the
\* backend output of an earlier request of the same session key, which is a
\* user field: a request without user field never runs with -r, and every
\* request runs on a handle that was built for its own session key.
C37_ResumesOwnConversation ==
    /\ \A h \in 1..Len(procs) :
          RunsWithR(h) =>
              /\ procs[h].user \in Users
              /\ \E g \in 1..(h - 1) :
                     /\ procs[g].user = procs[h].user
                     /\ procs[g].claude_session_id = procs[h].session_id
    /\ \A i \in Slots :
          reqs[i].proc # 0 => procs[reqs[i].proc].user = reqs[i].user

\* A request of a user resumes its conversation after a request without user
\* field has had a conversation id discovered for it.
C37_Witness ==
    \E h, g \in 1..Len(procs) :
        /\ RunsWithR(h)
        /\ procs[h].claude_session_id # Absent
        /\ g < h
        /\ procs[g].user \in TempIds
        /\ procs[g].claude_session_id # Absent
        /\ procs[g].claude_session_id # procs[h].session_id


(***************************************************************************)
(*          The usage records of different keys                            *)
(***************************************************************************)

\* The counter a validation at time t judges, given the record it finds.
CounterJudged(api_key, before, t) ==
    IF before = NoUsage \/ is_period_expired(before, t)
    THEN 0 ELSE before.current_period_requests

\* C38: validate_api_key, get_usage_stats and reset_usage for one key leave
\* the usage record of every other key as it was, and what a validation
\* returns is decided by the key's own record, its configuration and the time.
C38_KeysIndependent ==
    [][/\ \A k \in PresentedKeys :
             (key_result'.op # "none" /\ key_result'.key # k)
                 => usage_storage'[k] = usage_storage[k]
       /\ \A k \in ConfiguredKeys :
             (/\ api_key_enabled
              /\ key_result' # key_result
              /\ key_result'.op = "validate"
              /\ key_result'.key = k)
                 => /\ key_result'.before = usage_storage[k]
                    /\ key_result'.valid =
                           (CounterJudged(k, usage_storage[k], clock)
                               < get_api_key_config(k).max_requests)]_vars

\* A key is validated after another key has used up its quota and been reset.
C38_Witness ==
    /\ api_key_enabled
    /\ key_result.op = "validate"
    /\ key_result.key = "key-day-0001"
    /\ key_result.valid
    /\ key_result.before # NoUsage
    /\ key_result.before.current_period_requests = 1
    /\ usage_storage["key-month-01"] # NoUsage
    /\ usage_storage["key-month-01"].current_period_requests = 1
    /\ key_hist["key-month-01"] = <<"ok", "rate_limit_exceeded">>


(***************************************************************************)
(*          message_count and the message rows                             *)
(***************************************************************************)

\* C39: between requests the message_count of every cached session equals
\* the number of message rows appended to its id.
C39_CountEqualsRows ==
    BetweenRequests =>
        \A u \in SessionIds :
            Has(sessions, u) => Cached(u).message_count = db_messages[u]

\* A request of a user has completed and its session is still cached.
C39_Witness ==
    /\ BetweenRequests
    /\ \E u \in Users :
          /\ Has(sessions, u)
          /\ db_messages[u] = 1
          /\ Cached(u).message_count > 1


(***************************************************************************)
(*          Expired sessions on lookup, cached or stored only              *)
(***************************************************************************)

\* The durable row that get_or_create_session read is older than its timeout.
RowExpired(c) == c.called /\ c.row # NoRow /\ now > c.row.last_activity + TimeoutTicks

\* C40: get_or_create_session does not revive an expired session: a cached
\* session older than its timeout is dropped by the lookup, and a cold lookup
\* that reads a durable row older than its timeout goes on to create a fresh
\* session.
C40_NeverRevivesExpired ==
    /\ (event.get.called /\ event.get.obj # 0
            /\ now > event.get.last_activity + TimeoutTicks)
           => (event.get.returned = 0 /\ ~Has(sessions, event.get.id))
    /\ RowExpired(event.goc) => event.goc.outcome = "create"

\* A cold lookup has read a row older than its timeout that holds a backend
\* conversation id.
C40_Witness ==
    /\ RowExpired(event.goc)
    /\ event.goc.row.claude_session_id # Absent
    /\ ~Has(sessions, event.goc.id)

\* What holds instead: such a lookup raises and nothing is cached, so the
\* conversation is not resumed and no fresh session is returned either.
C40_ExpiredRowRaises ==
    RowExpired(event.goc) =>
        /\ event.goc.outcome = "raised"
        /\ ~Has(sessions, event.goc.id)
        /\ db_sessions[event.goc.id] = event.goc.row

====
